---- MODULE Spec2Model ----
(***************************************************************************)
(* Gesture-to-control mapping and dual-state transition engine of the      *)
(* interactive tree scene.                                                 *)
(*                                                                         *)
(* Two recorded variants of the gesture loop exist: the unthrottled one    *)
(* (src/unnamed/part_000: deadzone 0.05, sensitivity 1.5) and the          *)
(* throttled one (src/src/App.tsx: deadzone 0.1, sensitivity 0.25, onMove  *)
(* at most every 100 ms).  The variable `variant` selects between them.    *)
(*                                                                         *)
(* JavaScript numbers are IEEE-754 doubles.  The rotation mapping is       *)
(* modelled in exact double arithmetic (round to nearest, ties to even)    *)
(* on 72-bit fixed point magnitudes.  Landmark coordinates, scores and     *)
(* decimal literals are given in hundredths.                               *)
(***************************************************************************)
EXTENDS Integers, Sequences, FiniteSets, TLC

-----------------------------------------------------------------------------
(* IEEE-754 double arithmetic.  A magnitude is <<a, b, c>>, three limbs of  *)
(* 24 bits, standing for (a*2^48 + b*2^24 + c) / 2^64.  A double is a      *)
(* record [neg, mag] whose magnitude has at most 53 significant bits.       *)

Limb == 2^24

FixZero == <<0, 0, 0>>

FixIsZero(x) == x = FixZero

FixLess(x, y) ==
  \/ x[1] < y[1]
  \/ x[1] = y[1] /\ x[2] < y[2]
  \/ x[1] = y[1] /\ x[2] = y[2] /\ x[3] < y[3]

FixAdd(x, y) ==
  LET c == x[3] + y[3]
      b == x[2] + y[2] + (c \div Limb)
      a == x[1] + y[1] + (b \div Limb)
  IN  <<a, b % Limb, c % Limb>>

\* x - y for x >= y
FixSub(x, y) ==
  LET c == Limb + x[3] - y[3]
      b == Limb + x[2] - y[2] - (1 - (c \div Limb))
      a == x[1] - y[1] - (1 - (b \div Limb))
  IN  <<a, b % Limb, c % Limb>>

\* x * n for a small natural n
FixMulSmall(x, n) ==
  LET c == x[3] * n
      b == x[2] * n + (c \div Limb)
      a == x[1] * n + (b \div Limb)
  IN  <<a, b % Limb, c % Limb>>

\* x shifted right by s < 24 bits: [val, lost], lost = the bits shifted out
FixShr(x, s) ==
  LET M == 2^s
      U == Limb \div M
  IN  [val  |-> <<x[1] \div M,
                  (x[2] \div M) + (x[1] % M) * U,
                  (x[3] \div M) + (x[2] % M) * U>>,
       lost |-> x[3] % M]

RECURSIVE Log2(_)
Log2(n) == IF n <= 1 THEN 0 ELSE 1 + Log2(n \div 2)

\* position of the most significant set bit, 0..71
MsbPos(x) ==
  IF x[1] > 0 THEN 48 + Log2(x[1])
  ELSE IF x[2] > 0 THEN 24 + Log2(x[2])
  ELSE Log2(x[3])

\* round an exact magnitude (plus a sticky flag for digits beyond 2^-64) to
\* 53 significant bits, to nearest, ties to even
RoundFix(x, sticky) ==
  LET q == MsbPos(x) - 52
  IN  IF q <= 0 THEN x
      ELSE LET M    == 2^q
               rem  == x[3] % M
               keep == <<x[1], x[2], x[3] - rem>>
               half == M \div 2
               odd  == ((x[3] \div M) % 2) = 1
               up   == \/ rem > half
                       \/ rem = half /\ (sticky \/ odd)
           IN  IF up THEN FixAdd(keep, <<0, 0, M>>) ELSE keep

\* the double nearest to the ratio n/den, for 0 <= n, 0 < den < 2^19, n/den < 2^8:
\* long division, 16 bits and then 12 bits at a time, then rounding
FixOfRatio(n, den) ==
  LET n0 == n * 2^16
      a  == n0 \div den
      n1 == (n0 % den) * 2^12
      n2 == (n1 % den) * 2^12
      n3 == (n2 % den) * 2^12
      n4 == (n3 % den) * 2^12
      b  == (n1 \div den) * 2^12 + (n2 \div den)
      c  == (n3 \div den) * 2^12 + (n4 \div den)
  IN  RoundFix(<<a, b, c>>, (n4 % den) # 0)

\* the double nearest to the decimal literal n/100, n >= 0
FixOfDec(n) == FixOfRatio(n, 100)

Dbl(neg, mag) == [neg |-> neg /\ ~FixIsZero(mag), mag |-> mag]

DblOfDec(n) == IF n < 0 THEN Dbl(TRUE, FixOfDec(-n)) ELSE Dbl(FALSE, FixOfDec(n))

DblZero == Dbl(FALSE, FixZero)

DblNeg(x) == Dbl(~x.neg, x.mag)

DblAbs(x) == Dbl(FALSE, x.mag)

\* x < y
DblLess(x, y) ==
  IF x.neg /\ y.neg THEN FixLess(y.mag, x.mag)
  ELSE IF x.neg THEN TRUE
  ELSE IF y.neg THEN FALSE
  ELSE FixLess(x.mag, y.mag)

\* x + y, correctly rounded
DblAdd(x, y) ==
  IF x.neg = y.neg THEN Dbl(x.neg, RoundFix(FixAdd(x.mag, y.mag), FALSE))
  ELSE IF FixLess(x.mag, y.mag) THEN Dbl(y.neg, RoundFix(FixSub(y.mag, x.mag), FALSE))
  ELSE Dbl(x.neg, RoundFix(FixSub(x.mag, y.mag), FALSE))

DblSub(x, y) == DblAdd(x, DblNeg(y))

\* x * (p / 2^s), correctly rounded; p/2^s is an exactly representable factor
DblMulDyadic(x, p, s) ==
  LET sh == FixShr(FixMulSmall(x.mag, p), s)
  IN  Dbl(x.neg, RoundFix(sh.val, sh.lost # 0))

-----------------------------------------------------------------------------
(* Gesture Signal Interpreter: GestureController.predictWebcam              *)

VARIABLES
  variant,       \* "unthrottled" (src/unnamed/part_000) or "throttled" (src/src/App.tsx)
  isPinching,    \* isPinchingRef.current
  lastMoveTime,  \* callbacksRef.current.lastMoveTime, 0 = undefined
  now,           \* Date.now() of the latest animation frame, ms since mount
  sceneState,    \* GrandTreeApp sceneState, set by onGesture = setSceneState
  rotationSpeed, \* GrandTreeApp rotationSpeed, set by onMove = setRotationSpeed
  frames,        \* number of animation frames run so far
  last,          \* the recognition result handed to the latest frame
  emitted,       \* callbacks invoked by the latest frame, in order, per callback
  pinchLog,      \* every onPinch argument since mount, in order
  run            \* the current run of hand frames with the distance in the band

gestureVars == <<variant, isPinching, lastMoveTime, now, sceneState, rotationSpeed,
                 frames, last, emitted, pinchLog, run>>

VARIABLES
  rotIn,         \* rawOffset handed to the rotation mapping
  rotOut,        \* targetSpeed it computed
  rotDone        \* whether the mapping has run

rotVars == <<rotIn, rotOut, rotDone>>

VARIABLES
  data,          \* per entity class, the record of one entity of its data array
  before,        \* per entity class, currentPos before the latest tick
  ticks,         \* number of render ticks run so far
  lastDelta,     \* delta of the latest tick, ms
  tickState,     \* sceneState read by the latest tick
  tickLog,       \* delta and sceneState of every tick so far, in order
  origin,        \* per entity class, chaosPos and targetPos as the data array was built
  uProgress,     \* Foliage material uniform uProgress, units of 1/ProgressScale
  meshPos,       \* position of a bauble's mesh: the copied currentPos and the wobble added
  wobble         \* wobbleSpeed and wobbleOffset of that bauble, in thousandths

engineVars == <<data, before, ticks, lastDelta, tickState, tickLog,
                origin, uProgress, meshPos, wobble>>

VARIABLES
  baubles,       \* BaubleOrnaments data of the 5-second scenario, units of 1/FineScale
  elapsed,       \* time ticked in the scenario so far, ms
  frameDelta     \* delta of every tick of the scenario, ms

scenarioVars == <<baubles, elapsed, frameDelta>>

VARIABLES
  effectRun,     \* number of the latest run of the GestureController effect
  alive,         \* whether GestureController is still mounted in the page
  debugMode,     \* GrandTreeApp debugMode, the dependency of the effect
  mediaDevices,  \* whether navigator.mediaDevices.getUserMedia exists
  pc,            \* per effect run, where its setup() stands
  mounted,       \* per effect run, its closure variable mounted
  recognizer,    \* per effect run, the recognizer of its variable gestureRecognizer
  stream,        \* per effect run, the camera stream its getUserMedia returned
  srcObject,     \* the run whose stream is videoRef.current.srcObject, 0 = none
  requestRef,    \* per effect run, its variable requestRef, 0 = undefined
  pending,       \* animation-frame callbacks requested and neither run nor cancelled
  status,        \* GrandTreeApp aiStatus, set by onStatus = setAiStatus
  lastFrame,     \* per effect run, how its latest predictWebcam call ended
  framesRun,     \* per effect run, number of predictWebcam calls begun
  issued,        \* per effect run, number of frames that called onGesture/onMove/onPinch
  invoked        \* per effect run, number of steps of it that invoked a callback of
                 \* callbacksRef.current (onStatus, onGesture, onMove, onPinch)

lifeVars == <<effectRun, alive, debugMode, mediaDevices, pc, mounted, recognizer, stream,
              srcObject, requestRef, pending, status, lastFrame, framesRun, issued, invoked>>

VARIABLES
  numPhotos,     \* bodyPhotoPaths.length
  photosReady,   \* GrandTreeApp photosReady
  preload,       \* the delayed preload: "timer", "loading" or "done"
  population,    \* per entity class, the length of its data array and how often it was built
  popTicks       \* number of rendered frames of the population model

popVars == <<numPhotos, photosReady, preload, population, popTicks>>

VARIABLES
  focusedPhoto,  \* GrandTreeApp focusedPhoto: the index focused, NoFocus for null
  closure,       \* sceneState and photos.length of the render whose handlePinch is in
                 \* callbacksRef.current
  lastEvent      \* the latest event GrandTreeApp handled

appVars == <<focusedPhoto, closure, lastEvent>>

VARIABLES
  coneIn,        \* the Math.random() draws of one entity
  coneOut,       \* per entity class, the targetPos built from them
  coneDone       \* whether the data arrays have been built

coneVars == <<coneIn, coneOut, coneDone>>

VARIABLES
  endpoint,      \* which photos handler is deployed
  blobs,         \* urls of the blobs in the store
  exchange,      \* the latest request and the response to it
  requests       \* number of requests handled

apiVars == <<endpoint, blobs, exchange, requests>>

moreVars == <<appVars, coneVars, apiVars>>

restVars == <<scenarioVars, lifeVars, popVars, moreVars>>

vars == <<gestureVars, rotVars, engineVars, restVars>>

\* bounds of the model
MaxFrames == 3
MaxHandX == 100
MaxOffset == 50
MaxBaubles == 3
MaxInstances == 2
MaxLifeFrames == 2
MaxPhotos == 3
MaxPopTicks == 3
MaxConeSteps == 4
MaxRequests == 2

Instances == 1..MaxInstances

PopClasses == {"foliage", "bauble", "photo", "element", "light"}

\* thresholds of the source, in hundredths (scores, distances) or ms
ScoreThreshold == 40
ClosingThreshold == 5
OpeningThreshold == 8
ThrottleMs == 100

Variants == {"unthrottled", "throttled"}

\* const deadzone = 0.05 / 0.1, in hundredths
DeadzoneDec(v) == IF v = "unthrottled" THEN 5 ELSE 10

Deadzone(v) == DblOfDec(DeadzoneDec(v))

\* const sensitivity = 1.5 / 0.25, as p / 2^s
Sensitivity(v) == IF v = "unthrottled" THEN [p |-> 3, s |-> 1] ELSE [p |-> 1, s |-> 2]

\* const rawOffset = 0.5 - handX
RawOffset(handX) == DblSub(DblOfDec(50), handX)

\* a mutant of EffectiveOffset: the deadzone is subtracted whatever the sign
MutEffectiveOffsetNoSign(v, rawOffset) == DblSub(rawOffset, Deadzone(v))

\* const effectiveOffset = rawOffset > 0 ? rawOffset - deadzone : rawOffset + deadzone
EffectiveOffset(v, rawOffset) ==
  IF DblLess(DblZero, rawOffset) THEN DblSub(rawOffset, Deadzone(v))
  ELSE DblAdd(rawOffset, Deadzone(v))

\* a mutant of TargetSpeed: the offset is remapped without the deadzone test
MutTargetSpeedNoDeadzone(v, rawOffset) ==
  DblMulDyadic(DblNeg(EffectiveOffset(v, rawOffset)), Sensitivity(v).p, Sensitivity(v).s)

\* a mutant of TargetSpeed: the direction is not inverted
MutTargetSpeedNotInverted(v, rawOffset) ==
  IF DblLess(Deadzone(v), DblAbs(rawOffset))
  THEN DblMulDyadic(EffectiveOffset(v, rawOffset), Sensitivity(v).p, Sensitivity(v).s)
  ELSE DblZero

\* let targetSpeed = 0;
\* if (Math.abs(rawOffset) > deadzone) targetSpeed = -effectiveOffset * sensitivity
TargetSpeed(v, rawOffset) ==
  IF DblLess(Deadzone(v), DblAbs(rawOffset))
  THEN DblMulDyadic(DblNeg(EffectiveOffset(v, rawOffset)), Sensitivity(v).p, Sensitivity(v).s)
  ELSE DblZero

\* squared thumb-tip/index-tip distance, in 1e-4: the code compares
\* Math.sqrt(dx^2 + dy^2 + dz^2) with 0.05 and 0.08, here the squares are compared
DistanceSq(thumbTip, indexTip) ==
  (thumbTip[1] - indexTip[1]) * (thumbTip[1] - indexTip[1])
  + (thumbTip[2] - indexTip[2]) * (thumbTip[2] - indexTip[2])
  + (thumbTip[3] - indexTip[3]) * (thumbTip[3] - indexTip[3])

\* distance < 0.05
DistBelowClosing(dsq) == dsq < ClosingThreshold * ClosingThreshold

\* distance > 0.08
DistAboveOpening(dsq) == dsq > OpeningThreshold * OpeningThreshold

\* a mutant of PinchCloses: the gesture label is not consulted
MutPinchClosesAnyLabel(name, dsq) == DistBelowClosing(dsq)

\* distance < 0.05 && name !== "Closed_Fist"
PinchCloses(name, dsq) == DistBelowClosing(dsq) /\ name # "Closed_Fist"

\* a mutant of PinchOpens: one threshold, the pinch ends as soon as distance >= 0.05
MutPinchOpensSingleThreshold(pinching, dsq) == pinching /\ ~DistBelowClosing(dsq)

\* a mutant of PinchOpens: the pinch ends at distance >= 0.08
MutPinchOpensAtThreshold(pinching, dsq) ==
  pinching /\ dsq >= OpeningThreshold * OpeningThreshold

\* isPinchingRef.current && distance > 0.08
PinchOpens(pinching, dsq) == pinching /\ DistAboveOpening(dsq)

\* the pinch flag after a hand-present frame
PinchAfterHand(pinching, name, dsq) ==
  IF PinchCloses(name, dsq) THEN TRUE
  ELSE IF PinchOpens(pinching, dsq) THEN FALSE
  ELSE pinching

\* a mutant of PinchCallsHand: onPinch(true) on every closed frame, a level signal
MutPinchCallsHandLevel(pinching, name, dsq) ==
  IF PinchCloses(name, dsq) THEN <<TRUE>>
  ELSE (IF PinchOpens(pinching, dsq) THEN <<FALSE>> ELSE <<>>)

\* onPinch calls of a hand-present frame
PinchCallsHand(pinching, name, dsq) ==
  IF PinchCloses(name, dsq)
  THEN (IF ~pinching THEN <<TRUE>> ELSE <<>>)
  ELSE (IF PinchOpens(pinching, dsq) THEN <<FALSE>> ELSE <<>>)

\* a mutant of PinchCallsNoHand: onPinch(false) on every frame without a hand
MutPinchCallsNoHandAlways(pinching) == <<FALSE>>

\* onPinch calls of a frame without a hand
PinchCallsNoHand(pinching) == IF pinching THEN <<FALSE>> ELSE <<>>

\* a mutant of GestureCalls: the command is issued whatever the score
MutGestureCallsUngated(name, score) ==
  (IF name = "Open_Palm" THEN <<"CHAOS">> ELSE <<>>)
  \o (IF name = "Closed_Fist" THEN <<"FORMED">> ELSE <<>>)

\* a mutant of GestureCalls: score >= 0.4
MutGestureCallsAtThreshold(name, score) ==
  IF score >= ScoreThreshold
  THEN (IF name = "Open_Palm" THEN <<"CHAOS">> ELSE <<>>)
       \o (IF name = "Closed_Fist" THEN <<"FORMED">> ELSE <<>>)
  ELSE <<>>

\* if (score > 0.4) { if (name === "Open_Palm") onGesture("CHAOS");
\*                    if (name === "Closed_Fist") onGesture("FORMED") }
GestureCalls(name, score) ==
  IF score > ScoreThreshold
  THEN (IF name = "Open_Palm" THEN <<"CHAOS">> ELSE <<>>)
       \o (IF name = "Closed_Fist" THEN <<"FORMED">> ELSE <<>>)
  ELSE <<>>

\* a mutant of MoveAllowed: now - lastMoveTime >= 100
MutMoveAllowedAtInterval(v, lastMove, t) ==
  \/ v = "unthrottled"
  \/ lastMove = 0
  \/ t - lastMove >= ThrottleMs

\* whether a hand-present frame calls onMove
MoveAllowed(v, lastMove, t) ==
  \/ v = "unthrottled"
  \/ lastMove = 0
  \/ t - lastMove > ThrottleMs

\* the value a state setter leaves after a sequence of calls
SetBy(calls, old) == IF Len(calls) = 0 THEN old ELSE calls[Len(calls)]

\* inputs
GestureNames == {"Open_Palm", "Closed_Fist", "None"}
Scores == {ScoreThreshold, ScoreThreshold + 1}
HandXs == {30, 50}
ThumbTip == <<50, 50, 0>>
IndexOffsets == {<<4, 0, 0>>, <<3, 4, 0>>, <<6, 0, 0>>, <<0, 7, 0>>, <<8, 0, 0>>, <<0, 0, 9>>}
FrameGaps == {50, 101}

\* targetSpeed per variant and hand position, tabulated once
SpeedOf == [v \in Variants |-> [x \in HandXs |-> TargetSpeed(v, RawOffset(DblOfDec(x)))]]

VecAdd(p, q) == <<p[1] + q[1], p[2] + q[2], p[3] + q[3]>>

NoResult == [kind |-> "none", prevKind |-> "none", name |-> "None", score |-> 0,
             handX |-> 50, thumbTip |-> ThumbTip, indexTip |-> ThumbTip,
             pinchingBefore |-> FALSE]

NoCalls == [gesture |-> <<>>, move |-> <<>>, pinch |-> <<>>]

NoRun == [base |-> "NONE", events |-> 0, len |-> 0]

\* 0.05 <= distance <= 0.08
InBand(dsq) == ~DistBelowClosing(dsq) /\ ~DistAboveOpening(dsq)

\* the run of in-band hand frames, extended by a hand frame
RunAfterHand(r, pinching, dsq, calls) ==
  IF ~InBand(dsq) THEN NoRun
  ELSE IF r.len = 0
  THEN [base |-> IF pinching THEN "PINCHING" ELSE "RELEASED",
        events |-> Len(calls), len |-> 1]
  ELSE [base |-> r.base, events |-> r.events + Len(calls), len |-> r.len + 1]

GestureInit ==
  /\ variant \in Variants
  /\ isPinching = FALSE
  /\ lastMoveTime = 0
  /\ now = 1
  /\ sceneState = "FORMED"
  /\ rotationSpeed = DblZero
  /\ frames = 0
  /\ last = NoResult
  /\ emitted = NoCalls
  /\ pinchLog = <<>>
  /\ run = NoRun

RotIdle ==
  /\ rotIn = DblZero
  /\ rotOut = DblZero
  /\ rotDone = FALSE

\* render state before any entity exists
EngineIdle ==
  /\ data = <<>>
  /\ before = <<>>
  /\ ticks = 0
  /\ lastDelta = 0
  /\ tickState = "FORMED"
  /\ tickLog = <<>>
  /\ origin = <<>>
  /\ uProgress = 0
  /\ meshPos = <<>>
  /\ wobble = <<>>

\* the 5-second scenario not set up
ScenarioIdle ==
  /\ baubles = <<>>
  /\ elapsed = 0
  /\ frameDelta = 0

\* GestureController rendered, its effect not yet run
LifeIdle ==
  /\ effectRun = 0
  /\ alive = TRUE
  /\ debugMode = FALSE
  /\ mediaDevices = TRUE
  /\ pc = [i \in Instances |-> "unborn"]
  /\ mounted = [i \in Instances |-> FALSE]
  /\ recognizer = [i \in Instances |-> "none"]
  /\ stream = [i \in Instances |-> "none"]
  /\ srcObject = 0
  /\ requestRef = [i \in Instances |-> 0]
  /\ pending = {}
  /\ status = "INITIALIZING..."
  /\ lastFrame = [i \in Instances |-> "none"]
  /\ framesRun = [i \in Instances |-> 0]
  /\ issued = [i \in Instances |-> 0]
  /\ invoked = [i \in Instances |-> 0]

\* no entity class built yet
PopIdle ==
  /\ numPhotos = 0
  /\ photosReady = FALSE
  /\ preload = "timer"
  /\ population = [cls \in PopClasses |-> [count |-> 0, built |-> 0]]
  /\ popTicks = 0

\* focusedPhoto = null
NoFocus == 0 - 1

\* GrandTreeApp before its first render
AppIdle ==
  /\ focusedPhoto = NoFocus
  /\ closure = [sceneState |-> "FORMED", photos |-> 0]
  /\ lastEvent = [kind |-> "none"]

\* no data array built
ConeIdle ==
  /\ coneIn = <<>>
  /\ coneOut = <<>>
  /\ coneDone = FALSE

\* no request made
ApiIdle ==
  /\ endpoint = "none"
  /\ blobs = {}
  /\ exchange = <<>>
  /\ requests = 0

MoreIdle == AppIdle /\ ConeIdle /\ ApiIdle

RestIdle == ScenarioIdle /\ LifeIdle /\ PopIdle /\ MoreIdle

Init == GestureInit /\ RotIdle /\ EngineIdle /\ RestIdle

\* predictWebcam when the video has no frame yet (videoWidth = 0 or readyState < 2):
\* nothing is recognised, the next animation frame is requested
FrameNotReady(gap) ==
  /\ frames < MaxFrames
  /\ frames' = frames + 1
  /\ now' = now + gap
  /\ last' = [NoResult EXCEPT !.kind = "notReady", !.prevKind = last.kind,
                              !.pinchingBefore = isPinching]
  /\ emitted' = NoCalls
  /\ run' = NoRun
  /\ UNCHANGED <<variant, isPinching, lastMoveTime, sceneState, rotationSpeed, pinchLog>>
  /\ UNCHANGED <<rotVars, engineVars, restVars>>

\* predictWebcam with results.gestures.length = 0
FrameNoHand(gap) ==
  /\ frames < MaxFrames
  /\ frames' = frames + 1
  /\ now' = now + gap
  /\ last' = [NoResult EXCEPT !.kind = "noHand", !.prevKind = last.kind,
                              !.pinchingBefore = isPinching]
  /\ emitted' = [gesture |-> <<>>, move |-> <<DblZero>>,
                 pinch |-> PinchCallsNoHand(isPinching)]
  /\ rotationSpeed' = DblZero
  /\ isPinching' = FALSE
  /\ pinchLog' = pinchLog \o PinchCallsNoHand(isPinching)
  /\ run' = NoRun
  /\ UNCHANGED <<variant, lastMoveTime, sceneState>>
  /\ UNCHANGED <<rotVars, engineVars, restVars>>

\* predictWebcam with a classified gesture but results.landmarks.length = 0
FrameGestureOnly(gap, name, score) ==
  /\ frames < MaxFrames
  /\ frames' = frames + 1
  /\ now' = now + gap
  /\ last' = [NoResult EXCEPT !.kind = "gestureOnly", !.prevKind = last.kind,
                              !.name = name, !.score = score,
                              !.pinchingBefore = isPinching]
  /\ emitted' = [gesture |-> GestureCalls(name, score), move |-> <<>>, pinch |-> <<>>]
  /\ sceneState' = SetBy(GestureCalls(name, score), sceneState)
  /\ run' = NoRun
  /\ UNCHANGED <<variant, isPinching, lastMoveTime, rotationSpeed, pinchLog>>
  /\ UNCHANGED <<rotVars, engineVars, restVars>>

\* predictWebcam with a classified gesture and a landmark set
FrameHand(gap, name, score, handX, indexTip) ==
  LET t      == now + gap
      speed  == SpeedOf[variant][handX]
      moves  == IF MoveAllowed(variant, lastMoveTime, t) THEN <<speed>> ELSE <<>>
      dsq    == DistanceSq(ThumbTip, indexTip)
      pinch  == PinchCallsHand(isPinching, name, dsq)
  IN  /\ frames < MaxFrames
      /\ frames' = frames + 1
      /\ now' = t
      /\ last' = [kind |-> "hand", prevKind |-> last.kind, name |-> name,
                  score |-> score, handX |-> handX,
                  thumbTip |-> ThumbTip, indexTip |-> indexTip,
                  pinchingBefore |-> isPinching]
      /\ emitted' = [gesture |-> GestureCalls(name, score), move |-> moves, pinch |-> pinch]
      /\ sceneState' = SetBy(GestureCalls(name, score), sceneState)
      /\ rotationSpeed' = SetBy(moves, rotationSpeed)
      /\ lastMoveTime' = IF Len(moves) > 0 THEN t ELSE lastMoveTime
      /\ isPinching' = PinchAfterHand(isPinching, name, dsq)
      /\ pinchLog' = pinchLog \o pinch
      /\ run' = RunAfterHand(run, isPinching, dsq, pinch)
      /\ UNCHANGED variant
      /\ UNCHANGED <<rotVars, engineVars, restVars>>

Next ==
  \/ \E gap \in FrameGaps : FrameNotReady(gap)
  \/ \E gap \in FrameGaps : FrameNoHand(gap)
  \/ \E gap \in FrameGaps, name \in GestureNames, score \in Scores :
        FrameGestureOnly(gap, name, score)
  \/ \E gap \in FrameGaps, name \in GestureNames, score \in Scores,
        handX \in HandXs, off \in IndexOffsets :
        FrameHand(gap, name, score, handX, VecAdd(ThumbTip, off))

Spec == Init /\ [][Next]_vars

-----------------------------------------------------------------------------
(* The rotation mapping as a function of rawOffset                          *)

\* rawOffset = 0.5 - x for a landmark x in [0, 1], and offsets given directly
RawOffsetInputs ==
  {RawOffset(DblOfDec(x)) : x \in 0..MaxHandX}
  \cup {DblOfDec(n) : n \in 0..MaxOffset}
  \cup {DblNeg(DblOfDec(n)) : n \in 0..MaxOffset}

RotInit ==
  /\ GestureInit
  /\ EngineIdle
  /\ RestIdle
  /\ rotIn \in RawOffsetInputs
  /\ rotOut = DblZero
  /\ rotDone = FALSE

\* the rotation mapping of predictWebcam applied to rotIn
RotationMap ==
  /\ ~rotDone
  /\ rotOut' = TargetSpeed(variant, rotIn)
  /\ rotDone' = TRUE
  /\ UNCHANGED rotIn
  /\ UNCHANGED <<gestureVars, engineVars, restVars>>

RotNext == RotationMap

SpecRot == RotInit /\ [][RotNext]_vars

-----------------------------------------------------------------------------
(* Properties of the gesture loop                                           *)

LastDistSq == DistanceSq(last.thumbTip, last.indexTip)

HandPresent == last.kind = "hand"

\* C1: over a run of hand-present frames whose thumb-index distances all lie in
\* [0.05, 0.08], no onPinch call is made and the pinch flag keeps the value it
\* had before the run, RELEASED or PINCHING.
C1_HysteresisBand ==
  /\ (HandPresent /\ LastDistSq >= 25 /\ LastDistSq <= 64)
        => /\ emitted.pinch = <<>>
           /\ isPinching = last.pinchingBefore
           /\ run.len >= 1
  /\ run.len >= 1
        => /\ run.events = 0
           /\ isPinching = (run.base = "PINCHING")

\* a pinch held through two in-band frames, 0.06 or 0.07 apart
C1_Witness ==
  /\ run.len = 2
  /\ run.base = "PINCHING"
  /\ isPinching
  /\ LastDistSq = 49
  /\ pinchLog = <<TRUE>>

\* C2: a frame without a hand that finds the flag PINCHING calls onPinch(false)
\* exactly once, leaves the flag RELEASED and emits rotation velocity 0; a frame
\* without a hand that follows another one makes no onPinch call.
C2_HandLostReset ==
  last.kind = "noHand"
    => /\ isPinching = FALSE
       /\ emitted.move = <<DblZero>>
       /\ rotationSpeed = DblZero
       /\ last.pinchingBefore => emitted.pinch = <<FALSE>>
       /\ ~last.pinchingBefore => emitted.pinch = <<>>
       /\ last.prevKind = "noHand" => emitted.pinch = <<>>

\* the hand is lost right after the pinch started: no distance above 0.08 was seen
C2_Witness ==
  /\ last.kind = "noHand"
  /\ last.prevKind = "hand"
  /\ last.pinchingBefore
  /\ frames = 2
  /\ pinchLog = <<TRUE, FALSE>>

\* C3: the flag goes from RELEASED to PINCHING only on a hand frame with
\* distance < 0.05 whose label is not Closed_Fist.
C3_PinchStartGuard ==
  (~last.pinchingBefore /\ isPinching)
    => /\ HandPresent
       /\ LastDistSq < 25
       /\ last.name # "Closed_Fist"

\* a closed-distance frame labelled Closed_Fist that left the flag RELEASED
C3_Witness ==
  /\ HandPresent
  /\ LastDistSq < 25
  /\ last.name = "Closed_Fist"
  /\ ~last.pinchingBefore
  /\ ~isPinching
  /\ emitted.pinch = <<>>

\* C4: with a hand present the flag goes from PINCHING to RELEASED only on a
\* frame with distance > 0.08; a frame with distance <= 0.08 leaves it PINCHING.
C4_PinchReleaseGuard ==
  (last.kind \in {"hand", "gestureOnly"} /\ last.pinchingBefore)
    => /\ ~isPinching => (HandPresent /\ LastDistSq > 64)
       /\ (HandPresent /\ LastDistSq <= 64) => isPinching

\* a pinch held through a frame with distance < 0.05 labelled Closed_Fist
C4_Witness ==
  /\ HandPresent
  /\ last.pinchingBefore
  /\ last.name = "Closed_Fist"
  /\ LastDistSq < 25
  /\ isPinching

\* C5: onPinch is called once per change of the flag, with the new value, and
\* never on a frame that leaves the flag alone; the calls alternate, starting
\* with onPinch(true).
C5_PinchEdges ==
  /\ emitted.pinch = IF isPinching # last.pinchingBefore THEN <<isPinching>> ELSE <<>>
  /\ \A i \in 1..Len(pinchLog) : pinchLog[i] = (i % 2 = 1)
  /\ isPinching = (Len(pinchLog) % 2 = 1)

\* start, end, start
C5_Witness == pinchLog = <<TRUE, FALSE, TRUE>>

\* C6: a frame issues CHAOS for Open_Palm and FORMED for Closed_Fist when the
\* score is above 0.4, nothing otherwise, and never more than one command.
C6_GestureCommand ==
  LET classified == last.kind \in {"hand", "gestureOnly"} /\ last.score > 40
  IN  /\ Len(emitted.gesture) <= 1
      /\ (classified /\ last.name = "Open_Palm") => emitted.gesture = <<"CHAOS">>
      /\ (classified /\ last.name = "Closed_Fist") => emitted.gesture = <<"FORMED">>
      /\ ~(classified /\ last.name \in {"Open_Palm", "Closed_Fist"})
            => emitted.gesture = <<>>
      /\ emitted.gesture # <<>> => sceneState = emitted.gesture[1]

\* an open palm scored above 0.4 turned the scene to CHAOS
C6_Witness ==
  /\ HandPresent
  /\ last.name = "Open_Palm"
  /\ last.score = 41
  /\ emitted.gesture = <<"CHAOS">>
  /\ sceneState = "CHAOS"

-----------------------------------------------------------------------------
(* Properties of the rotation mapping                                       *)

\* the deadzone d of the variant: 0.05 unthrottled, 0.1 throttled
ClaimDeadzone == IF variant = "unthrottled" THEN DblOfDec(5) ELSE DblOfDec(10)

BeyondDeadzone == DblLess(ClaimDeadzone, DblAbs(rotIn))

\* C7: every rawOffset with |rawOffset| <= d, also |rawOffset| = d, yields
\* velocity exactly 0.
C7_Deadzone == (rotDone /\ ~BeyondDeadzone) => rotOut = DblZero

\* an offset of exactly -d was mapped
C7_Witness ==
  /\ rotDone
  /\ rotIn = DblNeg(ClaimDeadzone)
  /\ rotOut = DblZero

\* C8: the velocity of rawOffset = -o is the negation of the velocity of
\* rawOffset = +o.
C8_Symmetry == rotDone => rotOut = DblNeg(TargetSpeed(variant, DblNeg(rotIn)))

\* a hand right of the centre, beyond the deadzone, turns with positive velocity
C8_Witness ==
  /\ rotDone
  /\ BeyondDeadzone
  /\ rotIn.neg
  /\ ~rotOut.neg
  /\ rotOut # DblZero

\* the velocity of the formula, every operation rounded as a double operation
ClaimVelocity ==
  LET mag == DblSub(DblAbs(rotIn), ClaimDeadzone)
      scaled == IF variant = "unthrottled" THEN DblMulDyadic(mag, 3, 1)
                ELSE DblMulDyadic(mag, 1, 2)
  IN  IF rotIn.neg THEN scaled ELSE DblNeg(scaled)

\* 2^-55, one unit in the last place of a double in [0.125, 0.25)
Ulp55 == <<0, 0, 2^9>>

\* x = 0.3 in the unthrottled variant
Scenario03 == variant = "unthrottled" /\ rotIn = RawOffset(DblOfDec(30))

\* C9 as stated: x = 0.3 with deadzone 0.05 and sensitivity 1.5 gives velocity
\* exactly -0.225.
C9_ExactValue == (rotDone /\ Scenario03) => rotOut = Dbl(TRUE, FixOfRatio(225, 1000))

\* C9, amended: beyond the deadzone the velocity is -sign(rawOffset) *
\* (|rawOffset| - d) * sensitivity in double arithmetic; x = 0.3 gives rawOffset
\* 0.2, effective offset 0.15 + 2^-55 and velocity -(0.225 + 2^-55).
C9_Formula ==
  /\ (rotDone /\ BeyondDeadzone) => rotOut = ClaimVelocity
  /\ (rotDone /\ Scenario03)
        => /\ rotIn = DblOfDec(20)
           /\ EffectiveOffset(variant, rotIn) = Dbl(FALSE, FixAdd(FixOfDec(15), Ulp55))
           /\ rotOut = Dbl(TRUE, FixAdd(FixOfRatio(225, 1000), Ulp55))

\* the scenario x = 0.3 was mapped
C9_Witness == rotDone /\ Scenario03 /\ rotOut.neg

-----------------------------------------------------------------------------
(* Transition Engine: the useFrame callbacks of the per-entity classes.     *)
(* Positions are vectors in units of 1/PosScale, delta is in ms, rates are  *)
(* in tenths per second; a lerp step is rounded toward zero.                *)

PosScale == 2^4

\* bounds of the model
MaxTicks == 3

EntityClasses == {"bauble", "photo", "element", "light"}

\* deltas of a tick, ms: none, a 60 fps frame, a slow frame, a stalled tab
Deltas == {0, 16, 400, 1500}

\* chaosPos: each coordinate in (Math.random() - 0.5) * 60 or * 70
ChaosPositions == {<<-30 * PosScale, 20 * PosScale, 5 * PosScale>>,
                   <<12 * PosScale, -28 * PosScale, -17 * PosScale>>}

\* targetPos: points of the tree cone
TargetPositions == {<<4 * PosScale, 0, 0>>,
                    <<-1 * PosScale, 8 * PosScale, 1 * PosScale>>}

\* weight = 0.8 + Math.random() * 1.2, in hundredths
Weights == {100, 125, 150}

\* a mutant of RateTenths: baubles form at 0.5 per second
MutRateTenthsSlowBaubles(cls, isFormed, weight) ==
  CASE cls = "bauble"  -> IF isFormed THEN 5 ELSE 7
    [] cls = "photo"   -> IF isFormed THEN (8 * weight) \div 100 ELSE 5
    [] cls = "element" -> 15
    [] cls = "light"   -> 20

\* the factor k of lerp(target, delta * k), in tenths
RateTenths(cls, isFormed, weight) ==
  CASE cls = "bauble"  -> IF isFormed THEN 10 ELSE 7
    [] cls = "photo"   -> IF isFormed THEN (8 * weight) \div 100 ELSE 5
    [] cls = "element" -> 15
    [] cls = "light"   -> 20

\* n / d rounded toward zero, d > 0
TruncDiv(n, d) == IF n >= 0 THEN n \div d ELSE -((-n) \div d)

\* Vector3.lerp, one axis: this.x += (v.x - this.x) * alpha, alpha = num / den
LerpAxis(cur, target, num, den) == cur + TruncDiv((target - cur) * num, den)

\* Vector3.lerp(v, alpha)
Lerp(cur, target, num, den) ==
  <<LerpAxis(cur[1], target[1], num, den),
    LerpAxis(cur[2], target[2], num, den),
    LerpAxis(cur[3], target[3], num, den)>>

\* const target = isFormed ? objData.targetPos : objData.chaosPos
TargetOf(obj, state) == IF state = "FORMED" THEN obj.targetPos ELSE obj.chaosPos

\* a mutant of Advance: currentPos is chaosPos itself, not a clone of it
MutAdvanceAliased(cls, obj, state, delta) ==
  LET p == Lerp(obj.currentPos, TargetOf(obj, state),
                delta * RateTenths(cls, state = "FORMED", obj.weight), 10000)
  IN  [obj EXCEPT !.currentPos = p, !.chaosPos = p]

\* objData.currentPos.lerp(target, delta * k)
Advance(cls, obj, state, delta) ==
  [obj EXCEPT !.currentPos =
      Lerp(obj.currentPos, TargetOf(obj, state),
           delta * RateTenths(cls, state = "FORMED", obj.weight), 10000)]

\* the data of a class: currentPos: chaosPos.clone()
NewEntity(chaosPos, targetPos, weight) ==
  [chaosPos |-> chaosPos, targetPos |-> targetPos, weight |-> weight,
   currentPos |-> chaosPos]

\* uProgress in units of 1/ProgressScale
ProgressScale == 10^4

\* the terms k.. of the series of exp(-x), x and the terms in units of 1/ProgressScale
RECURSIVE ExpSeries(_, _, _, _)
ExpSeries(x, k, term, acc) ==
  IF term = 0 THEN acc
  ELSE LET next == (term * x) \div (ProgressScale * k)
       IN  ExpSeries(x, k + 1, next, IF k % 2 = 1 THEN acc - next ELSE acc + next)

\* Math.exp(-x), x >= 0
ExpNeg(x) == ExpSeries(x, 1, ProgressScale, ProgressScale)

\* MathUtils.lerp(x, y, t) = (1 - t) * x + t * y
MathLerp(x, y, t) == ((ProgressScale - t) * x + t * y) \div ProgressScale

\* a mutant of Damp: lerp(x, y, lambda * dt), the factor of the position lerps
MutDampLinear(x, y, lambdaTenths, dtMs) == MathLerp(x, y, lambdaTenths * dtMs)

\* MathUtils.damp(x, y, lambda, dt) = lerp(x, y, 1 - Math.exp(-lambda * dt))
Damp(x, y, lambdaTenths, dtMs) ==
  MathLerp(x, y, ProgressScale - ExpNeg(lambdaTenths * dtMs))

\* const targetProgress = state === 'FORMED' ? 1 : 0
TargetProgress(state) == IF state = "FORMED" THEN ProgressScale ELSE 0

\* Math.PI in thousandths
PiMilli == (355 * 1000) \div 113

\* Math.sin on [0, pi] in thousandths, by 16 x (pi - x) / (5 pi^2 - 4 x (pi - x)),
\* which is within 0.002 of the sine and reaches 1 at pi / 2
SinHalfTurn(r) ==
  LET p == (r * (PiMilli - r)) \div 100
  IN  (16 * p * 1000) \div ((5 * PiMilli * PiMilli) \div 100 - 4 * p)

\* Math.sin(x) in thousandths, x >= 0 in thousandths of a radian
SinMilli(x) ==
  LET r == x % (2 * PiMilli)
  IN  IF r <= PiMilli THEN SinHalfTurn(r) ELSE 0 - SinHalfTurn(r - PiMilli)

\* Math.cos(x) in thousandths
CosMilli(x) == SinMilli(x + PiMilli \div 2)

\* wobbleSpeed: 0.5 + Math.random() * 0.5, wobbleOffset: Math.random() * 10
WobbleParams == {[speed |-> 500, offset |-> 0], [speed |-> 750, offset |-> 2500]}

\* state.clock.elapsedTime at the latest tick, ms
RECURSIVE ElapsedMs(_)
ElapsedMs(log) ==
  IF Len(log) = 0 THEN 0 ELSE log[Len(log)].delta + ElapsedMs(SubSeq(log, 1, Len(log) - 1))

\* Math.sin(time * wobbleSpeed + wobbleOffset) * 0.02 and
\* Math.cos(time * wobbleSpeed * 0.8 + wobbleOffset) * 0.02, in units of 0.00001
WobbleAt(timeMs, w) ==
  <<SinMilli((timeMs * w.speed) \div 1000 + w.offset) * 2,
    CosMilli((timeMs * w.speed * 8) \div 10000 + w.offset) * 2>>

\* a mutant of WobbleOf: the wobble is added in CHAOS as well
MutWobbleOfAlways(isFormed, timeMs, w) == WobbleAt(timeMs, w)

\* what the frame adds to mesh.position.x and mesh.position.y after the copy
WobbleOf(isFormed, timeMs, w) == IF isFormed THEN WobbleAt(timeMs, w) ELSE <<0, 0>>

EngineInit ==
  /\ GestureInit
  /\ RotIdle
  /\ RestIdle
  /\ \E c \in ChaosPositions, t \in TargetPositions, w \in Weights :
        data = [cls \in EntityClasses |-> NewEntity(c, t, w)]
  /\ before = [cls \in EntityClasses |-> data[cls].currentPos]
  /\ ticks = 0
  /\ lastDelta = 0
  /\ tickState = sceneState
  /\ tickLog = <<>>
  /\ origin = [cls \in EntityClasses |->
                [chaosPos |-> data[cls].chaosPos, targetPos |-> data[cls].targetPos]]
  /\ uProgress = 0
  /\ meshPos = [base |-> <<0, 0, 0>>, wobble |-> <<0, 0>>]
  /\ wobble \in WobbleParams

\* one rendered frame: every class's useFrame callback runs with the same delta
Tick(delta) ==
  /\ ticks < MaxTicks
  /\ ticks' = ticks + 1
  /\ lastDelta' = delta
  /\ tickState' = sceneState
  /\ tickLog' = Append(tickLog, [delta |-> delta, state |-> sceneState])
  /\ before' = [cls \in EntityClasses |-> data[cls].currentPos]
  /\ data' = [cls \in EntityClasses |-> Advance(cls, data[cls], sceneState, delta)]
  /\ meshPos' = [base   |-> Advance("bauble", data["bauble"], sceneState, delta).currentPos,
                 wobble |-> WobbleOf(sceneState = "FORMED",
                                     ElapsedMs(tickLog) + delta, wobble)]
  /\ uProgress' = Damp(uProgress, TargetProgress(sceneState), 15, delta)
  /\ UNCHANGED <<origin, wobble>>
  /\ UNCHANGED <<gestureVars, rotVars, restVars>>

\* a mutant of ToggleState: the switch rebuilds the entity data at chaosPos
MutToggleStateRebuild ==
  /\ sceneState' = IF sceneState = "CHAOS" THEN "FORMED" ELSE "CHAOS"
  /\ data' = [cls \in EntityClasses |->
                NewEntity(data[cls].chaosPos, data[cls].targetPos, data[cls].weight)]
  /\ UNCHANGED <<variant, isPinching, lastMoveTime, now, rotationSpeed, frames, last,
                 emitted, pinchLog, run>>
  /\ UNCHANGED <<rotVars, before, ticks, lastDelta, tickState, tickLog, origin,
                 uProgress, meshPos, wobble, restVars>>

\* the toggle button: setSceneState(s => s === 'CHAOS' ? 'FORMED' : 'CHAOS')
ToggleState ==
  /\ sceneState' = IF sceneState = "CHAOS" THEN "FORMED" ELSE "CHAOS"
  /\ UNCHANGED <<variant, isPinching, lastMoveTime, now, rotationSpeed, frames, last,
                 emitted, pinchLog, run>>
  /\ UNCHANGED <<rotVars, engineVars, restVars>>

\* a gesture command: onGesture = setSceneState, called with "CHAOS" or "FORMED"
Command(cmd) ==
  /\ sceneState' = cmd
  /\ UNCHANGED <<variant, isPinching, lastMoveTime, now, rotationSpeed, frames, last,
                 emitted, pinchLog, run>>
  /\ UNCHANGED <<rotVars, engineVars, restVars>>

EngineNext ==
  \/ \E delta \in Deltas : Tick(delta)
  \/ ToggleState
  \/ \E cmd \in {"CHAOS", "FORMED"} : Command(cmd)

SpecEngine == EngineInit /\ [][EngineNext]_vars

-----------------------------------------------------------------------------
(* Properties of the transition engine                                      *)

Dot(p, q) == p[1] * q[1] + p[2] * q[2] + p[3] * q[3]

VecSub(p, q) == <<p[1] - q[1], p[2] - q[2], p[3] - q[3]>>

\* squared distance of two points
DistSq(p, q) == Dot(VecSub(p, q), VecSub(p, q))

\* the target the latest tick moved the entity toward
TickTarget(cls) == TargetOf(data[cls], tickState)

\* C10: a tick, whatever its delta >= 0, moves currentPosition toward the target
\* without passing it and without increasing the distance to it.
C10_NoOvershoot ==
  ticks > 0 =>
    \A cls \in EntityClasses :
      /\ Dot(VecSub(data[cls].currentPos, TickTarget(cls)),
             VecSub(before[cls], TickTarget(cls))) >= 0
      /\ DistSq(data[cls].currentPos, TickTarget(cls))
            <= DistSq(before[cls], TickTarget(cls))

Abs(n) == IF n >= 0 THEN n ELSE -n

\* x lies between a and b, ends included
Between(a, x, b) == (a <= x /\ x <= b) \/ (b <= x /\ x <= a)

\* C11: after any ticks and switches every currentPosition lies on the segment
\* from chaosPosition to formedPosition, ends included; stated by its
\* consequence that each coordinate lies between the two ends' coordinates.
C11_OnSegment ==
  \A cls \in EntityClasses : \A i \in 1..3 :
    Between(data[cls].chaosPos[i], data[cls].currentPos[i], data[cls].targetPos[i])

\* C12: on every tick with delta > 0 an entity that is not at its target ends
\* strictly closer to it.
C12_StrictDecrease ==
  (ticks > 0 /\ lastDelta > 0) =>
    \A cls \in EntityClasses :
      before[cls] # TickTarget(cls)
        => DistSq(data[cls].currentPos, TickTarget(cls))
              < DistSq(before[cls], TickTarget(cls))

\* the step of a tick stays within the blend step alpha * |target - position|
StepWithinBlend(obj, obj2, cls, state, delta) ==
  \A i \in 1..3 :
    Abs(obj2.currentPos[i] - obj.currentPos[i]) * 10000
      <= Abs(TargetOf(obj, state)[i] - obj.currentPos[i])
           * delta * RateTenths(cls, state = "FORMED", obj.weight)

\* C14: a SceneState switch, by command or toggle, leaves every currentPosition
\* as it is; the tick after it starts from that position and moves it by no more
\* than the blend step toward the target of the new state.
C14_SwitchContinuity ==
  [][/\ sceneState' # sceneState => data' = data
     /\ ticks' # ticks =>
          \A cls \in EntityClasses :
            StepWithinBlend(data[cls], data'[cls], cls, sceneState, lastDelta')]_vars

\* formed-ward, switched to CHAOS mid-way, switched back before the return ended
C14_Witness ==
  /\ Len(tickLog) = 2
  /\ tickLog[1].state = "FORMED" /\ tickLog[1].delta = 400
  /\ tickLog[2].state = "CHAOS" /\ tickLog[2].delta = 16
  /\ sceneState = "FORMED"
  /\ \A cls \in EntityClasses :
        /\ data[cls].currentPos # data[cls].chaosPos
        /\ data[cls].currentPos # data[cls].targetPos
        /\ data[cls].currentPos # before[cls]

\* the entity as it was created, before any tick
Created(obj) == [obj EXCEPT !.currentPos = obj.chaosPos]

\* C15: the blend factor of a tick lies in [0, 1), and two formed-ward ticks of
\* d1 and d2 leave currentPosition where one tick of d1 + d2 leaves it (up to
\* the rounding of the positions).
C15_FramerateIndependent ==
  /\ ticks > 0 =>
       \A cls \in EntityClasses :
         lastDelta * RateTenths(cls, tickState = "FORMED", data[cls].weight) < 10000
  /\ (Len(tickLog) = 2 /\ tickLog[1].state = "FORMED" /\ tickLog[2].state = "FORMED") =>
       \A cls \in EntityClasses : \A i \in 1..3 :
         Abs(data[cls].currentPos[i]
             - Advance(cls, Created(data[cls]), "FORMED",
                       tickLog[1].delta + tickLog[2].delta).currentPos[i]) <= 2

-----------------------------------------------------------------------------
(* The bauble scenario: BaubleOrnaments ticked at FORMED for 5 seconds at a *)
(* steady frame rate. Positions are in units of 1/FineScale.                *)

FineScale == 2^14

\* the 5 seconds of the scenario, ms
ScenarioMs == 5 * 1000

\* delta of a frame at 125, 100, 50, 25 and 10 frames per second, ms
FrameDeltas == {8, 10, 20, 40, 100}

\* chaosPos of bauble i: each coordinate (Math.random() - 0.5) * 70, in [-35, 35];
\* bauble 1 sits in the corner (35, 35, 35)
BaubleChaos(i) ==
  <<(35 - (((i - 1) * 17) % 71)) * FineScale,
    (35 - (((i - 1) * 24) % 71)) * FineScale,
    (35 - (((i - 1) * 31) % 71)) * FineScale>>

\* targetPos of bauble i: y in [-h/2, h/2] with h = 22, on the circle of radius
\* rBase * (1 - (y + h/2) / h) * 0.9 with rBase = 9, theta a multiple of PI / 2
BaubleTarget(i) ==
  LET y == ((i * 7) % 23) - 11
      r == (81 * (11 - y) * FineScale) \div 220
  IN  CASE i % 4 = 0 -> <<r, y * FineScale, 0>>
        [] i % 4 = 1 -> <<0, y * FineScale, r>>
        [] i % 4 = 2 -> <<-r, y * FineScale, 0>>
        [] i % 4 = 3 -> <<0, y * FineScale, -r>>

ScenarioInit ==
  /\ GestureInit
  /\ RotIdle
  /\ EngineIdle
  /\ LifeIdle
  /\ PopIdle
  /\ MoreIdle
  /\ baubles = [i \in 1..MaxBaubles |-> NewEntity(BaubleChaos(i), BaubleTarget(i), 100)]
  /\ elapsed = 0
  /\ frameDelta \in FrameDeltas

\* one rendered frame of BaubleOrnaments
BaubleTick ==
  /\ elapsed < ScenarioMs
  /\ elapsed' = elapsed + frameDelta
  /\ baubles' = [i \in 1..Len(baubles) |->
                   Advance("bauble", baubles[i], sceneState, frameDelta)]
  /\ UNCHANGED frameDelta
  /\ UNCHANGED <<gestureVars, rotVars, engineVars, lifeVars, popVars, moreVars>>

ScenarioNext == BaubleTick

SpecScenario == ScenarioInit /\ [][ScenarioNext]_vars

\* 0.05 units squared, in units of 1/FineScale, rounded down
EpsilonSq == (FineScale * FineScale) \div 400

\* C13 as stated: after 5 seconds of FORMED ticks every bauble is less than 0.05
\* units from its formedPosition.
C13_WithinEpsilon ==
  elapsed = ScenarioMs =>
    \A i \in 1..Len(baubles) :
      DistSq(baubles[i].currentPos, baubles[i].targetPos) <= EpsilonSq

\* the offset below which a rounded lerp step of the scenario is zero
RoundingSlack == 10000 \div (frameDelta * 10) + 1

\* C13, amended: after 5 seconds of FORMED ticks at a steady 10 to 125 frames
\* per second every coordinate's offset from formedPosition is at most 0.7 % of
\* its initial offset (e^-5 = 0.67 %), and an initial offset of 12 units or more
\* still leaves more than 0.05 units.
C13_SettlesToPercent ==
  elapsed = ScenarioMs =>
    \A i \in 1..Len(baubles) : \A a \in 1..3 :
      LET left  == Abs(baubles[i].currentPos[a] - baubles[i].targetPos[a])
          start == Abs(baubles[i].chaosPos[a] - baubles[i].targetPos[a])
      IN  /\ left * 1000 <= 7 * start + 1000 * RoundingSlack
          /\ start >= 12 * FineScale => left * 20 > FineScale

\* 5 seconds at 50 frames per second have passed and the corner bauble is still
\* more than 0.05 units away
C13_Witness ==
  /\ elapsed = ScenarioMs
  /\ frameDelta = 20
  /\ sceneState = "FORMED"
  /\ DistSq(baubles[1].currentPos, baubles[1].targetPos) > EpsilonSq

-----------------------------------------------------------------------------
(* GestureController effect: setup(), the predictWebcam loop and the        *)
(* cleanup. An await of setup() is a state of pc; JavaScript runs one       *)
(* callback at a time, so every action is one callback run to its end.      *)

\* the gesture variables a frame of this model leaves alone
gestureQuiet == <<variant, isPinching, lastMoveTime, now, frames, last, emitted,
                  pinchLog, run>>

\* how a predictWebcam call ends: video not ready, frame processed, exception
FrameOutcomes == {"notReady", "ok", "throw"}

\* onStatus(`ERROR: ${err.message || 'MODEL FAILED'}`)
CaughtStatus == "ERROR: MODEL FAILED"

\* onStatus("ERROR: CAMERA PERMISSION DENIED")
NoCameraStatus == "ERROR: CAMERA PERMISSION DENIED"

\* a mutant of CatchStatus: the catch block reports whether mounted or not
MutCatchStatusAlways(isMounted, old) == CaughtStatus

\* a mutant of CatchStatus: the catch block reports nothing
MutCatchStatusSilent(isMounted, old) == old

\* catch (err) { if (mounted) onStatus(`ERROR: ...`) }
CatchStatus(isMounted, old) == IF isMounted THEN CaughtStatus ELSE old

\* a mutant of CancelAnimationFrame: the request is left pending
MutCancelNothing(pend, i, id) == pend

\* cancelAnimationFrame(requestRef) of run i
CancelAnimationFrame(pend, i, id) == pend \ {[inst |-> i, id |-> id]}

\* if (videoRef.current && videoRef.current.srcObject)
\*   stream.getTracks().forEach(track => track.stop())
StopTracks(st, src) == IF src # 0 THEN [st EXCEPT ![src] = "stopped"] ELSE st

\* if (gestureRecognizer) gestureRecognizer.close()
CloseRecognizer(rec, i) == IF rec[i] # "none" THEN [rec EXCEPT ![i] = "closed"] ELSE rec

\* the first run of the effect has called setup(), which awaits the fileset
LifeInit ==
  /\ GestureInit
  /\ RotIdle
  /\ EngineIdle
  /\ ScenarioIdle
  /\ PopIdle
  /\ MoreIdle
  /\ effectRun = 1
  /\ alive = TRUE
  /\ debugMode = FALSE
  /\ mediaDevices \in BOOLEAN
  /\ pc = [i \in Instances |-> IF i = 1 THEN "fileset" ELSE "unborn"]
  /\ mounted = [i \in Instances |-> i = 1]
  /\ recognizer = [i \in Instances |-> "none"]
  /\ stream = [i \in Instances |-> "none"]
  /\ srcObject = 0
  /\ requestRef = [i \in Instances |-> 0]
  /\ pending = {}
  /\ status = "DOWNLOADING AI..."
  /\ lastFrame = [i \in Instances |-> "none"]
  /\ framesRun = [i \in Instances |-> 0]
  /\ issued = [i \in Instances |-> 0]
  /\ invoked = [i \in Instances |-> IF i = 1 THEN 1 ELSE 0]

\* whether the catch block of setup() calls onStatus
CatchReports(isMounted) == CatchStatus(isMounted, "") # ""

\* the body of predictWebcam of a mounted run i, ending as outcome says: an "ok"
\* frame calls onGesture/onMove/onPinch (and onStatus in debug mode); unless the
\* frame throws, requestRef = requestAnimationFrame(predictWebcam) ends it
PredictWebcam(i, outcome, pend, statusBefore) ==
  /\ framesRun' = [framesRun EXCEPT ![i] = @ + 1]
  /\ lastFrame' = [lastFrame EXCEPT ![i] = outcome]
  /\ IF outcome = "ok"
     THEN /\ issued' = [issued EXCEPT ![i] = @ + 1]
          /\ sceneState' \in {"CHAOS", "FORMED"}
          /\ rotationSpeed' \in {SpeedOf[variant][x] : x \in HandXs}
          /\ status' \in IF debugMode THEN {statusBefore, "AI READY: NO HAND"}
                         ELSE {statusBefore}
     ELSE /\ status' = statusBefore
          /\ UNCHANGED <<issued, sceneState, rotationSpeed>>
  /\ IF outcome = "throw"
     THEN /\ pending' = pend
          /\ UNCHANGED requestRef
     ELSE /\ pending' = pend \cup {[inst |-> i, id |-> framesRun[i] + 1]}
          /\ requestRef' = [requestRef EXCEPT ![i] = framesRun[i] + 1]

\* await FilesetResolver.forVisionTasks(...) resolves; if (!mounted) return
FilesetResolved(i) ==
  /\ pc[i] = "fileset"
  /\ pc' = [pc EXCEPT ![i] = IF mounted[i] THEN "create" ELSE "returned"]
  /\ UNCHANGED <<effectRun, alive, debugMode, mediaDevices, mounted, recognizer, stream,
                 srcObject, requestRef, pending, status, lastFrame, framesRun, issued,
                 invoked>>
  /\ UNCHANGED <<gestureVars, rotVars, engineVars, scenarioVars, popVars, moreVars>>

\* gestureRecognizer = await GestureRecognizer.createFromOptions(...) resolves;
\* if (!mounted) return; then the camera is requested, if there is one
RecognizerCreated(i) ==
  /\ pc[i] = "create"
  /\ recognizer' = [recognizer EXCEPT ![i] = "open"]
  /\ IF ~mounted[i]
     THEN /\ pc' = [pc EXCEPT ![i] = "returned"]
          /\ UNCHANGED status
     ELSE IF mediaDevices
     THEN /\ pc' = [pc EXCEPT ![i] = "camera"]
          /\ status' = "REQUESTING CAMERA..."
     ELSE /\ pc' = [pc EXCEPT ![i] = "failed"]
          /\ status' = NoCameraStatus
  /\ invoked' = [invoked EXCEPT ![i] = IF mounted[i] THEN @ + 1 ELSE @]
  /\ UNCHANGED <<effectRun, alive, debugMode, mediaDevices, mounted, stream,
                 srcObject, requestRef, pending, lastFrame, framesRun, issued>>
  /\ UNCHANGED <<gestureVars, rotVars, engineVars, scenarioVars, popVars, moreVars>>

\* await navigator.mediaDevices.getUserMedia({ video: true }) resolves: a torn
\* down run stops the tracks and returns, a mounted run attaches the stream and
\* calls predictWebcam() inside the try block
CameraGranted(i, outcome) ==
  /\ pc[i] = "camera"
  /\ IF ~mounted[i]
     THEN /\ outcome = "notReady"
          /\ stream' = [stream EXCEPT ![i] = "stopped"]
          /\ pc' = [pc EXCEPT ![i] = "returned"]
          /\ UNCHANGED <<srcObject, requestRef, pending, status, lastFrame, framesRun,
                         issued, invoked, sceneState, rotationSpeed>>
     ELSE /\ stream' = [stream EXCEPT ![i] = "live"]
          /\ srcObject' = i
          /\ invoked' = [invoked EXCEPT ![i] = @ + 1]
          /\ IF outcome = "throw"
             THEN /\ PredictWebcam(i, outcome, pending,
                                   CatchStatus(mounted[i], "AI READY: SHOW HAND"))
                  /\ pc' = [pc EXCEPT ![i] = "crashed"]
             ELSE /\ PredictWebcam(i, outcome, pending, "AI READY: SHOW HAND")
                  /\ pc' = [pc EXCEPT ![i] = "looping"]
  /\ UNCHANGED <<effectRun, alive, debugMode, mediaDevices, mounted, recognizer>>
  /\ UNCHANGED <<gestureQuiet, rotVars, engineVars, scenarioVars, popVars, moreVars>>

\* an awaited step of setup() rejects: the catch block
Rejected(i) ==
  /\ pc[i] \in {"fileset", "create", "camera"}
  /\ pc' = [pc EXCEPT ![i] = "failed"]
  /\ status' = CatchStatus(mounted[i], status)
  /\ invoked' = [invoked EXCEPT ![i] = IF CatchReports(mounted[i]) THEN @ + 1 ELSE @]
  /\ UNCHANGED <<effectRun, alive, debugMode, mediaDevices, mounted, recognizer, stream,
                 srcObject, requestRef, pending, lastFrame, framesRun, issued>>
  /\ UNCHANGED <<gestureVars, rotVars, engineVars, scenarioVars, popVars, moreVars>>

\* the browser runs a requested animation-frame callback: predictWebcam of run i;
\* an exception of the callback is caught by nobody
AnimationFrame(i, outcome) ==
  /\ framesRun[i] < MaxLifeFrames
  /\ \E cb \in pending :
       /\ cb.inst = i
       /\ IF ~mounted[i]
          THEN /\ outcome = "notReady"
               /\ pending' = pending \ {cb}
               /\ UNCHANGED <<pc, requestRef, status, lastFrame, framesRun, issued,
                              invoked, sceneState, rotationSpeed>>
          ELSE /\ PredictWebcam(i, outcome, pending \ {cb}, status)
               /\ invoked' = [invoked EXCEPT ![i] = IF outcome = "ok" THEN @ + 1 ELSE @]
               /\ pc' = [pc EXCEPT ![i] = IF outcome = "throw" THEN "crashed" ELSE @]
  /\ UNCHANGED <<effectRun, alive, debugMode, mediaDevices, mounted, recognizer, stream,
                 srcObject>>
  /\ UNCHANGED <<gestureQuiet, rotVars, engineVars, scenarioVars, popVars, moreVars>>

\* debugMode changes: the cleanup of the current run, then the effect runs again
ToggleDebug ==
  /\ alive
  /\ effectRun < MaxInstances
  /\ debugMode' = ~debugMode
  /\ effectRun' = effectRun + 1
  /\ mounted' = [mounted EXCEPT ![effectRun] = FALSE, ![effectRun + 1] = TRUE]
  /\ pending' = CancelAnimationFrame(pending, effectRun, requestRef[effectRun])
  /\ stream' = StopTracks(stream, srcObject)
  /\ recognizer' = CloseRecognizer(recognizer, effectRun)
  /\ pc' = [pc EXCEPT ![effectRun + 1] = "fileset"]
  /\ status' = "DOWNLOADING AI..."
  /\ invoked' = [invoked EXCEPT ![effectRun + 1] = 1]
  /\ UNCHANGED <<alive, mediaDevices, srcObject, requestRef, lastFrame, framesRun, issued>>
  /\ UNCHANGED <<gestureVars, rotVars, engineVars, scenarioVars, popVars, moreVars>>

\* GestureController is removed: the cleanup of the current run
Unmount ==
  /\ alive
  /\ alive' = FALSE
  /\ mounted' = [mounted EXCEPT ![effectRun] = FALSE]
  /\ pending' = CancelAnimationFrame(pending, effectRun, requestRef[effectRun])
  /\ stream' = StopTracks(stream, srcObject)
  /\ recognizer' = CloseRecognizer(recognizer, effectRun)
  /\ UNCHANGED <<effectRun, debugMode, mediaDevices, pc, srcObject, requestRef, status,
                 lastFrame, framesRun, issued, invoked>>
  /\ UNCHANGED <<gestureVars, rotVars, engineVars, scenarioVars, popVars, moreVars>>

LifeNext ==
  \/ \E i \in Instances : FilesetResolved(i)
  \/ \E i \in Instances : RecognizerCreated(i)
  \/ \E i \in Instances, outcome \in FrameOutcomes : CameraGranted(i, outcome)
  \/ \E i \in Instances : Rejected(i)
  \/ \E i \in Instances, outcome \in FrameOutcomes : AnimationFrame(i, outcome)
  \/ ToggleDebug
  \/ Unmount

SpecLife == LifeInit /\ [][LifeNext]_vars

-----------------------------------------------------------------------------
(* Properties of the GestureController effect                               *)

\* run i has been torn down and none of its awaits is still pending
TornDown(i) == ~mounted[i] /\ pc[i] \notin {"unborn", "fileset", "create", "camera"}

\* C16: once a run of the effect is torn down and its setup steps have settled,
\* in whatever order cleanup and steps came, the camera stream it obtained is
\* stopped and the recognizer it created is closed.
C16_TeardownReleases ==
  \A i \in Instances :
    TornDown(i) => (stream[i] # "live" /\ recognizer[i] # "open")

\* the pending callbacks of run i
PendingOf(i) == {cb \in pending : cb.inst = i}

\* C17: at most one predictWebcam continuation is requested at any time, it
\* belongs to the mounted current run of the effect and is the one in its
\* requestRef; a request is only issued by a frame that has run to its end.
C17_SingleOutstanding ==
  /\ [](/\ Cardinality(pending) <= 1
        /\ \A cb \in pending :
             /\ cb.inst = effectRun
             /\ mounted[cb.inst]
             /\ pc[cb.inst] = "looping"
             /\ cb.id = requestRef[cb.inst])
  /\ [][\A cb \in pending' \ pending :
          /\ framesRun'[cb.inst] = framesRun[cb.inst] + 1
          /\ lastFrame'[cb.inst] # "throw"
          /\ PendingOf(cb.inst) \cap pending' = {}]_vars

\* the effect was restarted while the first run was looping, and the second
\* run's loop is going
C17_Witness ==
  /\ effectRun = 2
  /\ framesRun[1] = 2
  /\ pc[1] = "looping"
  /\ ~mounted[1]
  /\ pc[2] = "looping"
  /\ framesRun[2] = 2
  /\ pending = {[inst |-> 2, id |-> 2]}

\* C18: after a frame that threw, the loop of a mounted run goes on: its next
\* predictWebcam is requested.
C18_ErrorSwallowed ==
  \A i \in Instances :
    (mounted[i] /\ lastFrame[i] = "throw") => PendingOf(i) # {}

\* C19: a run whose setup failed (fileset or recognizer rejected, no camera,
\* camera refused) never starts its loop and never calls onGesture, onMove or
\* onPinch; while it is the mounted run the status is an ERROR string; and as
\* long as no frame has called back, sceneState and rotationSpeed are the
\* initial FORMED and 0.
C19_InitFailure ==
  /\ \A i \in Instances :
       pc[i] = "failed" =>
         /\ framesRun[i] = 0
         /\ issued[i] = 0
         /\ requestRef[i] = 0
         /\ PendingOf(i) = {}
         /\ lastFrame[i] = "none"
         /\ mounted[i] => status \in {CaughtStatus, NoCameraStatus}
  /\ (\A i \in Instances : issued[i] = 0)
        => (sceneState = "FORMED" /\ rotationSpeed = DblZero)

\* the recognizer was created but the browser has no camera
C19_Witness ==
  /\ pc[1] = "failed"
  /\ mounted[1]
  /\ ~mediaDevices
  /\ recognizer[1] = "open"
  /\ status = NoCameraStatus
  /\ sceneState = "FORMED"
  /\ rotationSpeed = DblZero

-----------------------------------------------------------------------------
(* Entity populations: the data arrays of the entity classes over renders   *)

\* CONFIG.counts, photos: bodyPhotoPaths.length
ClassCount(cls, n) ==
  CASE cls = "foliage" -> 15000
    [] cls = "bauble"  -> 250
    [] cls = "photo"   -> n
    [] cls = "element" -> 150
    [] cls = "light"   -> 500

\* photos.length: photosReady ? bodyPhotoPaths : [] in src/unnamed/part_000,
\* bodyPhotoPaths itself in src/src/App.tsx
PhotosShown(v, ready, n) == IF v = "unthrottled" /\ ~ready THEN 0 ELSE n

\* a mutant of Render: every render builds the photo panels anew
MutRenderRebuilds(pop, shown) ==
  [pop EXCEPT !["photo"] = [count |-> shown, built |-> @.built + 1]]

\* a render of Experience: {photos.length > 0 && <PhotoOrnaments .../>} with
\* data = useMemo(..., [textures, count]); the other classes keep their
\* memoised data
Render(pop, shown) ==
  [pop EXCEPT !["photo"] =
     IF shown = @.count THEN @ ELSE [count |-> shown, built |-> @.built + 1]]

\* the first render: every class builds its data, the photo panels if shown
PopInit ==
  /\ GestureInit
  /\ RotIdle
  /\ EngineIdle
  /\ ScenarioIdle
  /\ LifeIdle
  /\ MoreIdle
  /\ numPhotos \in 0..MaxPhotos
  /\ photosReady = FALSE
  /\ preload = IF variant = "unthrottled" THEN "timer" ELSE "none"
  /\ population =
       Render([cls \in PopClasses |->
                 IF cls = "photo" THEN [count |-> 0, built |-> 0]
                 ELSE [count |-> ClassCount(cls, numPhotos), built |-> 1]],
              PhotosShown(variant, FALSE, numPhotos))
  /\ popTicks = 0

\* setTimeout(..., 500) fires: preloadImages(bodyPhotoPaths) starts
PreloadTimer ==
  /\ preload = "timer"
  /\ preload' = "loading"
  /\ UNCHANGED <<numPhotos, photosReady, population, popTicks>>
  /\ UNCHANGED <<gestureVars, rotVars, engineVars, scenarioVars, lifeVars, moreVars>>

\* preloadImages(...).then(() => setPhotosReady(true)), and the render it causes
PreloadDone ==
  /\ preload = "loading"
  /\ preload' = "done"
  /\ photosReady' = TRUE
  /\ population' = Render(population, PhotosShown(variant, TRUE, numPhotos))
  /\ UNCHANGED <<numPhotos, popTicks>>
  /\ UNCHANGED <<gestureVars, rotVars, engineVars, scenarioVars, lifeVars, moreVars>>

\* a rendered frame: the useFrame callbacks move entities, no array changes
PopTick ==
  /\ popTicks < MaxPopTicks
  /\ popTicks' = popTicks + 1
  /\ UNCHANGED <<numPhotos, photosReady, preload, population>>
  /\ UNCHANGED <<gestureVars, rotVars, engineVars, scenarioVars, lifeVars, moreVars>>

\* a command or the toggle sets sceneState, and the render it causes
PopCommand(cmd) ==
  /\ sceneState' = cmd
  /\ population' = Render(population, PhotosShown(variant, photosReady, numPhotos))
  /\ UNCHANGED <<numPhotos, photosReady, preload, popTicks>>
  /\ UNCHANGED <<gestureQuiet, rotationSpeed, rotVars, engineVars, scenarioVars, lifeVars, moreVars>>

PopNext ==
  \/ PreloadTimer
  \/ PreloadDone
  \/ PopTick
  \/ \E cmd \in {"CHAOS", "FORMED"} : PopCommand(cmd)

SpecPop == PopInit /\ [][PopNext]_vars

\* C20 as stated: no tick, command or asynchronous event, the end of the photo
\* preload included, changes a class's entity count or rebuilds its entities.
C20_FixedPopulations == [][population' = population]_vars

\* C20, amended: foliage, baubles, elements and lights are built once, at the
\* first render, with 15000, 250, 150 and 500 entities; the photo panels are
\* built at most once, one per image, and the only step that changes a
\* population is the end of the delayed preload, which takes the photo panels
\* from none to one per image.
C20_BuiltOnce ==
  /\ [](/\ \A cls \in PopClasses \ {"photo"} :
             population[cls] = [count |-> ClassCount(cls, numPhotos), built |-> 1]
        /\ population["photo"].built <= 1
        /\ population["photo"].count = PhotosShown(variant, photosReady, numPhotos))
  /\ [][population' # population =>
          /\ variant = "unthrottled"
          /\ ~photosReady /\ photosReady'
          /\ population["photo"] = [count |-> 0, built |-> 0]
          /\ population'["photo"] = [count |-> numPhotos, built |-> 1]]_vars

\* the preload has ended with two images, then frames and a command went by
C20_Witness ==
  /\ variant = "unthrottled"
  /\ photosReady
  /\ numPhotos = 2
  /\ population["photo"] = [count |-> 2, built |-> 1]
  /\ popTicks = 2
  /\ sceneState = "CHAOS"

-----------------------------------------------------------------------------
(* The throttle of onMove and the reach of the score threshold              *)

\* a step that is a hand-present frame of predictWebcam
HandFrameStep == frames' = frames + 1 /\ last'.kind = "hand"

\* a hand-present frame within 100 ms of the previous hand-present emission
WithinThrottle == lastMoveTime # 0 /\ now' - lastMoveTime <= ThrottleMs

\* C27: in the throttled configuration callbacksRef.current.lastMoveTime is the
\* time of the latest onMove made from a hand-present frame; a hand-present
\* frame calls onMove only if there was no such emission before or it lies more
\* than 100 ms back, so two consecutive hand-present emissions are more than
\* 100 ms apart, and a hand-present frame within 100 ms of the previous
\* emission calls no onMove and leaves rotationSpeed alone
C27_Throttle ==
  [][variant = "throttled" =>
       /\ (HandFrameStep /\ emitted'.move # <<>>) =>
             /\ lastMoveTime = 0 \/ now' - lastMoveTime > ThrottleMs
             /\ lastMoveTime' = now'
       /\ (HandFrameStep /\ WithinThrottle) =>
             /\ emitted'.move = <<>>
             /\ rotationSpeed' = rotationSpeed
             /\ lastMoveTime' = lastMoveTime
       /\ ~HandFrameStep => lastMoveTime' = lastMoveTime]_vars

\* a hand-present frame exactly 100 ms after the previous emission, silent
C27_Witness ==
  /\ variant = "throttled"
  /\ last.kind = "hand"
  /\ lastMoveTime # 0
  /\ now - lastMoveTime = ThrottleMs
  /\ emitted.move = <<>>

\* a hand-present frame whose top gesture scores at most 0.4
LowScoreHandStep == HandFrameStep /\ last'.score <= ScoreThreshold

\* C29: a hand-present frame whose score is <= 0.4 calls no onGesture and
\* leaves sceneState alone, yet calls onMove with the speed of its hand
\* position wherever the throttle lets a frame do so, and runs pinch
\* detection with its label: a close pinch labelled other than Closed_Fist
\* starts a pinch, a close pinch labelled Closed_Fist starts none
C29_ThresholdGatesCommandOnly ==
  [][LowScoreHandStep =>
       LET dsq == DistanceSq(last'.thumbTip, last'.indexTip)
       IN  /\ emitted'.gesture = <<>>
           /\ sceneState' = sceneState
           /\ (variant = "unthrottled" \/ lastMoveTime = 0
                 \/ now' - lastMoveTime > ThrottleMs) =>
                 /\ emitted'.move = <<SpeedOf[variant][last'.handX]>>
                 /\ rotationSpeed' = SpeedOf[variant][last'.handX]
           /\ (~isPinching /\ DistBelowClosing(dsq) /\ last'.name # "Closed_Fist") =>
                 emitted'.pinch = <<TRUE>> /\ isPinching'
           /\ (~isPinching /\ last'.name = "Closed_Fist") =>
                 emitted'.pinch = <<>> /\ ~isPinching'
           /\ (isPinching /\ DistAboveOpening(dsq)) =>
                 emitted'.pinch = <<FALSE>> /\ ~isPinching']_vars

\* a low-confidence Closed_Fist with thumb and index close together, off centre:
\* no command, a velocity, no pinch
C29_Witness ==
  /\ last.kind = "hand"
  /\ last.score <= ScoreThreshold
  /\ last.name = "Closed_Fist"
  /\ DistBelowClosing(DistanceSq(last.thumbTip, last.indexTip))
  /\ ~last.pinchingBefore
  /\ emitted.gesture = <<>>
  /\ emitted.move # <<>>
  /\ emitted.move[1] # DblZero
  /\ emitted.pinch = <<>>
  /\ ~isPinching

-----------------------------------------------------------------------------
(* Targets, the wobble of the baubles and the foliage progress              *)

\* C22: after any ticks and switches every entity's chaosPos and targetPos are
\* the vectors the data array was built with; currentPos starts equal to
\* chaosPos and is a copy of it, so moving currentPos moves neither target
C22_TargetsImmutable ==
  /\ \A cls \in EntityClasses :
       /\ data[cls].chaosPos = origin[cls].chaosPos
       /\ data[cls].targetPos = origin[cls].targetPos
  /\ ticks = 0 => \A cls \in EntityClasses : data[cls].currentPos = data[cls].chaosPos

\* ticks in both states have moved every currentPos off its chaosPos
C22_Witness ==
  /\ ticks >= 2
  /\ \E i, j \in 1..Len(tickLog) : tickLog[i].state = "FORMED" /\ tickLog[j].state = "CHAOS"
  /\ \A cls \in EntityClasses :
       /\ data[cls].currentPos # data[cls].chaosPos
       /\ data[cls].currentPos # data[cls].targetPos
       /\ data[cls].chaosPos = origin[cls].chaosPos

\* 0.02 in units of 0.00001
WobbleMax == 2 * 1000

\* C25: the mesh of a bauble is drawn at currentPos plus a wobble; a tick in
\* CHAOS adds no wobble, a tick in FORMED adds one of at most 0.02 on x and on
\* y, after the lerp; currentPos itself is the lerp of the previous currentPos
\* and nothing else, so the wobble never accumulates in it
C25_WobbleFormedOnly ==
  ticks > 0 =>
    /\ meshPos.base = data["bauble"].currentPos
    /\ data["bauble"].currentPos =
         Lerp(before["bauble"], TickTarget("bauble"),
              lastDelta * RateTenths("bauble", tickState = "FORMED", data["bauble"].weight),
              10000)
    /\ tickState = "CHAOS" => meshPos.wobble = <<0, 0>>
    /\ tickState = "FORMED" =>
         Abs(meshPos.wobble[1]) <= WobbleMax /\ Abs(meshPos.wobble[2]) <= WobbleMax

\* two FORMED ticks in a row, the second with a wobble on both axes
C25_Witness ==
  /\ ticks >= 2
  /\ tickState = "FORMED"
  /\ tickLog[ticks - 1].state = "FORMED"
  /\ lastDelta > 0
  /\ meshPos.wobble[1] # 0
  /\ meshPos.wobble[2] # 0
  /\ meshPos.base # before["bauble"]

\* C26: uProgress starts at 0 and stays within [0, 1] after any ticks with
\* delta >= 0 and any switches; a tick in FORMED never decreases it and a tick
\* in CHAOS never increases it
C26_ProgressBounded ==
  /\ [](/\ 0 <= uProgress
        /\ uProgress <= ProgressScale
        /\ ticks = 0 => uProgress = 0)
  /\ [][ticks' = ticks + 1 =>
          /\ sceneState = "FORMED" => uProgress' >= uProgress
          /\ sceneState = "CHAOS" => uProgress' <= uProgress]_vars

\* a stalled FORMED frame took the progress most of the way, a CHAOS tick took
\* some of it back
C26_Witness ==
  /\ ticks >= 2
  /\ tickState = "CHAOS"
  /\ lastDelta > 0
  /\ tickLog[ticks - 1] = [delta |-> 1500, state |-> "FORMED"]
  /\ 0 < uProgress
  /\ uProgress < ProgressScale \div 2

-----------------------------------------------------------------------------
(* The GestureController effect after its cleanup                           *)

\* the cleanup of run i has run
CleanedUp(i) == pc[i] # "unborn" /\ ~mounted[i]

\* C24: once the cleanup of a run of the effect has run, none of its
\* predictWebcam continuations is pending or processes a frame, and no step of
\* that run invokes onStatus, onGesture, onMove or onPinch, whichever await or
\* animation frame was outstanding at the cleanup
C24_QuietAfterCleanup ==
  /\ [](\A i \in Instances : CleanedUp(i) => PendingOf(i) = {})
  /\ [][\A i \in Instances :
          CleanedUp(i) =>
            /\ framesRun'[i] = framesRun[i]
            /\ issued'[i] = issued[i]
            /\ invoked'[i] = invoked[i]
            /\ lastFrame'[i] = lastFrame[i]]_vars

\* the effect was restarted while the first run awaited the camera, with a
\* frame loop yet to start; the camera was then refused, and the first run
\* said nothing more than its two status lines before the cleanup
C24_Witness ==
  /\ effectRun = 2
  /\ CleanedUp(1)
  /\ pc[1] = "failed"
  /\ recognizer[1] = "closed"
  /\ invoked[1] = 2
  /\ status # CaughtStatus
  /\ pc[2] = "looping"
  /\ issued[2] > 0

-----------------------------------------------------------------------------
(* GrandTreeApp: the focused photo. handlePinch is a useCallback over        *)
(* sceneState and photos; GestureController calls the one an effect stored   *)
(* in callbacksRef.current after the latest render, so between a setState    *)
(* and the render it causes the handler still sees the older values.         *)

\* Math.random() in tenths
RandomDraws == {0, 5, 9}

\* Math.floor(Math.random() * photos.length)
RandomIndex(r, count) == (r * count) \div 10

\* a mutant of HandlePinch: no test of photos.length
MutHandlePinchNoPhotoGuard(pinching, state, count, r, focus) ==
  IF pinching
  THEN (IF state = "CHAOS" THEN RandomIndex(r, count) ELSE focus)
  ELSE NoFocus

\* a mutant of HandlePinch: no test of sceneState
MutHandlePinchAnyState(pinching, state, count, r, focus) ==
  IF pinching
  THEN (IF count > 0 THEN RandomIndex(r, count) ELSE focus)
  ELSE NoFocus

\* handlePinch(isPinching) with the sceneState and photos.length of its closure:
\* focusedPhoto after it
HandlePinch(pinching, state, count, r, focus) ==
  IF pinching
  THEN (IF state = "CHAOS" /\ count > 0 THEN RandomIndex(r, count) ELSE focus)
  ELSE NoFocus

\* useEffect(() => { if (sceneState === 'FORMED') setFocusedPhoto(null) }, [sceneState]),
\* run by a render whose sceneState differs from the previous render's
ClearOnFormed(rendered, state, focus) ==
  IF rendered # state /\ state = "FORMED" THEN NoFocus ELSE focus

\* what the next render of GrandTreeApp hands to handlePinch
Current == [sceneState |-> sceneState,
            photos |-> PhotosShown(variant, photosReady, numPhotos)]

\* every setState has been rendered and its effects have run
Quiescent == closure = Current

\* the first render of GrandTreeApp and its effects
AppInit ==
  /\ GestureInit
  /\ RotIdle
  /\ EngineIdle
  /\ ScenarioIdle
  /\ LifeIdle
  /\ ConeIdle
  /\ ApiIdle
  /\ numPhotos \in 0..MaxPhotos
  /\ photosReady = FALSE
  /\ preload = IF variant = "unthrottled" THEN "timer" ELSE "none"
  /\ population =
       Render([cls \in PopClasses |->
                 IF cls = "photo" THEN [count |-> 0, built |-> 0]
                 ELSE [count |-> ClassCount(cls, numPhotos), built |-> 1]],
              PhotosShown(variant, FALSE, numPhotos))
  /\ popTicks = 0
  /\ focusedPhoto = NoFocus
  /\ closure = [sceneState |-> "FORMED", photos |-> PhotosShown(variant, FALSE, numPhotos)]
  /\ lastEvent = [kind |-> "none"]

\* onGesture(cmd) = setSceneState(cmd); the render comes later
AppCommand(cmd) ==
  /\ sceneState' = cmd
  /\ lastEvent' = [kind |-> "command", state |-> cmd]
  /\ UNCHANGED <<focusedPhoto, closure>>
  /\ UNCHANGED <<gestureQuiet, rotationSpeed, rotVars, engineVars, scenarioVars, lifeVars,
                 popVars, coneVars, apiVars>>

\* the toggle button: setSceneState(s => s === 'CHAOS' ? 'FORMED' : 'CHAOS')
AppToggle ==
  /\ sceneState' = IF sceneState = "CHAOS" THEN "FORMED" ELSE "CHAOS"
  /\ lastEvent' = [kind |-> "toggle", state |-> sceneState']
  /\ UNCHANGED <<focusedPhoto, closure>>
  /\ UNCHANGED <<gestureQuiet, rotationSpeed, rotVars, engineVars, scenarioVars, lifeVars,
                 popVars, coneVars, apiVars>>

\* onPinch(pinching): the handlePinch stored in callbacksRef.current
AppPinch(pinching, r) ==
  /\ focusedPhoto' = HandlePinch(pinching, closure.sceneState, closure.photos, r,
                                 focusedPhoto)
  /\ lastEvent' = [kind |-> IF pinching THEN "pinchStart" ELSE "pinchEnd",
                   state |-> sceneState, seen |-> closure.sceneState,
                   photos |-> closure.photos, quiescent |-> Quiescent]
  /\ UNCHANGED closure
  /\ UNCHANGED <<gestureVars, rotVars, engineVars, scenarioVars, lifeVars, popVars,
                 coneVars, apiVars>>

\* keydown Escape: if (e.key === 'Escape' && focusedPhoto) setFocusedPhoto(null)
AppEscape ==
  /\ focusedPhoto' = NoFocus
  /\ lastEvent' = [kind |-> "escape"]
  /\ UNCHANGED closure
  /\ UNCHANGED <<gestureVars, rotVars, engineVars, scenarioVars, lifeVars, popVars,
                 coneVars, apiVars>>

\* preloadImages(...).then(() => setPhotosReady(true)); the render comes later
AppPreloadDone ==
  /\ preload = "loading"
  /\ preload' = "done"
  /\ photosReady' = TRUE
  /\ lastEvent' = [kind |-> "preload"]
  /\ UNCHANGED <<numPhotos, population, popTicks, focusedPhoto, closure>>
  /\ UNCHANGED <<gestureVars, rotVars, engineVars, scenarioVars, lifeVars, coneVars, apiVars>>

\* React renders the pending state: Experience shows the photos there are, the
\* effects store the new handlePinch and, if sceneState changed, run the effect
\* that clears the focus on FORMED
AppRender ==
  /\ ~Quiescent
  /\ closure' = Current
  /\ focusedPhoto' = ClearOnFormed(closure.sceneState, sceneState, focusedPhoto)
  /\ population' = Render(population, Current.photos)
  /\ lastEvent' = [kind |-> "render", from |-> closure.sceneState]
  /\ UNCHANGED <<numPhotos, photosReady, preload, popTicks>>
  /\ UNCHANGED <<gestureVars, rotVars, engineVars, scenarioVars, lifeVars, coneVars, apiVars>>

AppNext ==
  \/ \E cmd \in {"CHAOS", "FORMED"} : AppCommand(cmd)
  \/ AppToggle
  \/ \E pinching \in BOOLEAN, r \in RandomDraws : AppPinch(pinching, r)
  \/ AppEscape
  \/ PreloadTimer
  \/ AppPreloadDone
  \/ AppRender
  \/ PopTick

SpecApp == AppInit /\ [][AppNext]_vars

\* the photos Experience shows
Shown == PhotosShown(variant, photosReady, numPhotos)

\* C21: with no photo available no photo panel is ever built and no photo is
\* ever focused, whatever ticks, commands and pinches are handled
C21_NoPhotos ==
  numPhotos = 0 =>
    /\ population["photo"] = [count |-> 0, built |-> 0]
    /\ closure.photos = 0
    /\ focusedPhoto = NoFocus

\* no photo, the empty preload done, frames rendered, and a pinch-start
\* handled in CHAOS
C21_Witness ==
  /\ numPhotos = 0
  /\ variant = "unthrottled"
  /\ photosReady
  /\ popTicks > 0
  /\ sceneState = "CHAOS"
  /\ lastEvent.kind = "pinchStart"
  /\ lastEvent.seen = "CHAOS"
  /\ lastEvent.quiescent
  /\ focusedPhoto = NoFocus

\* C28: the focus is set only by a pinch-start whose handler sees CHAOS and at
\* least one photo, to an index below the photo count; a pinch-end leaves no
\* focus; and once every setState has been rendered, which clears the focus on
\* entering FORMED, a focused photo implies sceneState = CHAOS
C28_FocusOnlyInChaos ==
  /\ [](/\ (Quiescent /\ focusedPhoto # NoFocus) =>
             sceneState = "CHAOS" /\ focusedPhoto \in 0..(Shown - 1)
        /\ lastEvent.kind = "pinchEnd" => focusedPhoto = NoFocus
        /\ (lastEvent.kind = "render" /\ sceneState = "FORMED"
              /\ lastEvent.from = "CHAOS") => focusedPhoto = NoFocus)
  /\ [][(focusedPhoto' # focusedPhoto /\ focusedPhoto' # NoFocus) =>
          /\ lastEvent'.kind = "pinchStart"
          /\ lastEvent'.seen = "CHAOS"
          /\ lastEvent'.quiescent => sceneState = "CHAOS"
          /\ lastEvent'.photos > 0
          /\ focusedPhoto' \in 0..(lastEvent'.photos - 1)]_vars

\* a photo is focused in CHAOS with everything rendered
C28_Witness ==
  /\ Quiescent
  /\ sceneState = "CHAOS"
  /\ lastEvent.kind = "pinchStart"
  /\ focusedPhoto = Shown - 1
  /\ focusedPhoto > 0

-----------------------------------------------------------------------------
(* The formed positions: targetPos of every entity class as a function of    *)
(* the Math.random() draws. A draw is a multiple of 1 / MaxConeSteps below 1, *)
(* theta is an angle whose cosine and sine are rational, lengths are in      *)
(* units of 1 / ConeUnit and horizontal coordinates carry the denominator of *)
(* the direction.                                                            *)

\* CONFIG.tree = { height: 22, radius: 9 }
TreeHeight == 22
TreeRadius == 9

ConeUnit == 20 * MaxConeSteps * MaxConeSteps

\* Math.random(), as the numerator over MaxConeSteps
Draws == 0..(MaxConeSteps - 1)

\* (cos theta, sin theta) = (c / d, s / d) with c^2 + s^2 = d^2
Directions == {[c |-> 1, s |-> 0, d |-> 1], [c |-> 0, s |-> -1, d |-> 1],
               [c |-> 3, s |-> 4, d |-> 5], [c |-> -4, s |-> 3, d |-> 5],
               [c |-> -3, s |-> -4, d |-> 5], [c |-> 4, s |-> -3, d |-> 5]}

\* const y = (Math.random() * h) - (h / 2)
HeightOf(u) == (u * TreeHeight * ConeUnit) \div MaxConeSteps - (TreeHeight * ConeUnit) \div 2

\* rBase * (1 - (y + (h / 2)) / h)
ConeRadius(y) ==
  (TreeRadius * (TreeHeight * ConeUnit - (y + (TreeHeight * ConeUnit) \div 2)))
    \div TreeHeight

\* a mutant of ClassRadius: baubles at 1.1 of the cone radius
MutClassRadiusBaublesOutside(cls, cr, v) ==
  CASE cls = "foliage" -> (v * cr) \div MaxConeSteps
    [] cls = "bauble"  -> (cr * 11) \div 10
    [] cls = "element" -> (cr * 95) \div 100
    [] cls = "light"   -> cr + (3 * ConeUnit) \div 10
    [] cls = "photo"   -> cr + ConeUnit \div 2

\* the radius at which a class puts its entity, cr being the cone radius at its
\* height: Math.random() * currentRadius, * 0.9, * 0.95, + 0.3, + 0.5
ClassRadius(cls, cr, v) ==
  CASE cls = "foliage" -> (v * cr) \div MaxConeSteps
    [] cls = "bauble"  -> (cr * 9) \div 10
    [] cls = "element" -> (cr * 95) \div 100
    [] cls = "light"   -> cr + (3 * ConeUnit) \div 10
    [] cls = "photo"   -> cr + ConeUnit \div 2

\* targetPos = (r cos theta, y, r sin theta), every coordinate times dir.d
FormedPosition(cls, in) ==
  LET y == HeightOf(in.u)
      r == ClassRadius(cls, ConeRadius(y), in.v)
  IN  <<r * in.dir.c, y * in.dir.d, r * in.dir.s>>

ConeInit ==
  /\ GestureInit
  /\ RotIdle
  /\ EngineIdle
  /\ ScenarioIdle
  /\ LifeIdle
  /\ PopIdle
  /\ AppIdle
  /\ ApiIdle
  /\ \E u \in Draws, v \in Draws, dir \in Directions :
        coneIn = [u |-> u, v |-> v, dir |-> dir]
  /\ coneOut = <<>>
  /\ coneDone = FALSE

\* the useMemo of every class builds its data from the draws
BuildData ==
  /\ ~coneDone
  /\ coneOut' = [cls \in PopClasses |-> FormedPosition(cls, coneIn)]
  /\ coneDone' = TRUE
  /\ UNCHANGED coneIn
  /\ UNCHANGED <<gestureVars, rotVars, engineVars, scenarioVars, lifeVars, popVars,
                 appVars, apiVars>>

ConeNext == BuildData

SpecCone == ConeInit /\ [][ConeNext]_vars

\* y of a built position, in units of 1 / ConeUnit
YOf(p) == p[2] \div coneIn.dir.d

\* squared horizontal distance from the axis
AxisDistSq(p) == p[1] * p[1] + p[3] * p[3]

\* the height is in [-H/2, H/2]
HeightInRange(p) ==
  /\ 0 - (TreeHeight * ConeUnit) \div 2 <= YOf(p)
  /\ YOf(p) <= (TreeHeight * ConeUnit) \div 2

\* the horizontal distance is at most the cone radius at the height plus margin
WithinRadius(p, margin) ==
  AxisDistSq(p) <= ((ConeRadius(YOf(p)) + margin) * coneIn.dir.d)
                     * ((ConeRadius(YOf(p)) + margin) * coneIn.dir.d)

\* C23 as stated: every class's formedPosition has y in [-H/2, H/2] and lies at
\* most R * (1 - (y + H/2) / H) from the axis, H = 22, R = 9
C23_InsideCone ==
  coneDone => \A cls \in PopClasses :
                HeightInRange(coneOut[cls]) /\ WithinRadius(coneOut[cls], 0)

\* C23, amended: every class's formedPosition has y in [-H/2, H/2]; foliage,
\* baubles and elements lie at most R * (1 - (y + H/2) / H) from the axis
\* (baubles at 0.9 of it, elements at 0.95 of it); lights lie 0.3 and photo
\* panels 0.5 outside that radius, at every height
C23_ConePlusMargins ==
  coneDone =>
    /\ \A cls \in PopClasses : HeightInRange(coneOut[cls])
    /\ \A cls \in {"foliage", "bauble", "element"} : WithinRadius(coneOut[cls], 0)
    /\ WithinRadius(coneOut["light"], (3 * ConeUnit) \div 10)
    /\ ~WithinRadius(coneOut["light"], (3 * ConeUnit) \div 10 - 1)
    /\ WithinRadius(coneOut["photo"], ConeUnit \div 2)
    /\ ~WithinRadius(coneOut["photo"], ConeUnit \div 2 - 1)

\* an entity drawn above the base on an oblique direction: bauble and foliage
\* inside the cone, the light outside it
C23_Witness ==
  /\ coneDone
  /\ coneIn.u > 0
  /\ coneIn.v > 0
  /\ coneIn.dir.d > 1
  /\ WithinRadius(coneOut["bauble"], 0)
  /\ AxisDistSq(coneOut["foliage"]) > 0
  /\ ~WithinRadius(coneOut["light"], 0)

-----------------------------------------------------------------------------
(* The photos endpoint: src/unnamed/part_001 (IncomingMessage handler with a *)
(* try/catch) and src/api/photos.ts (Request handler without one), over a    *)
(* blob store. A status of NoResponse means the handler threw.               *)

Endpoints == {"part_001", "photos.ts"}

\* the blobs of the store: url, whether the pathname starts with tree1/ and
\* whether it ends in an image extension
StoredBlobs == {[url |-> "tree1/a.jpg", tree |-> TRUE, image |-> TRUE],
                [url |-> "tree1/", tree |-> TRUE, image |-> FALSE],
                [url |-> "other/b.png", tree |-> FALSE, image |-> TRUE]}

Methods == {"GET", "POST", "PUT", "DELETE"}

\* request bodies: not JSON (or none), the JSON null, an object without url,
\* an object with url
Bodies ==
  {[kind |-> "invalid"], [kind |-> "null"], [kind |-> "noUrl"]}
    \cup {[kind |-> "url", url |-> u] :
            u \in {"", "tree1/a.jpg", "other/b.png", "tree1/gone.jpg"}}

\* the handler answered nothing: its promise rejected
NoResponse == 0 - 1

\* !url
Falsy(body) == body.kind = "noUrl" \/ (body.kind = "url" /\ body.url = "")

\* parseBody(request) / request.json() rejects, or body.url throws on null
BodyThrows(body) == body.kind \in {"invalid", "null"}

\* catch (error) { return json({ error: 'Internal Server Error' }, 500) } in
\* part_001; nothing catches in photos.ts
Thrown(ep, store) ==
  [store |-> store, status |-> IF ep = "part_001" THEN 500 ELSE NoResponse, listed |-> {}]

\* list({ prefix: 'tree1/' }) filtered to images in part_001, list() in photos.ts
Listed(ep, store) ==
  {b.url : b \in {s \in store : ep = "part_001" => (s.tree /\ s.image)}}

\* del(url)
Del(store, url) == {b \in store : b.url # url}

\* a mutant of Handler: no `if (!url)` test
MutHandlerNoUrlGuard(ep, store, req) ==
  IF req.method = "DELETE"
  THEN IF BodyThrows(req.body) THEN Thrown(ep, store)
       ELSE IF ~req.storeOk THEN Thrown(ep, store)
       ELSE [store |-> IF req.body.kind = "url" THEN Del(store, req.body.url) ELSE store,
             status |-> 200, listed |-> {}]
  ELSE IF ~req.storeOk THEN Thrown(ep, store)
       ELSE [store |-> store, status |-> 200, listed |-> Listed(ep, store)]

\* handler(request): the store and the response after it
Handler(ep, store, req) ==
  IF req.method = "DELETE"
  THEN IF BodyThrows(req.body) THEN Thrown(ep, store)
       ELSE IF Falsy(req.body) THEN [store |-> store, status |-> 400, listed |-> {}]
       ELSE IF ~req.storeOk THEN Thrown(ep, store)
       ELSE [store |-> Del(store, req.body.url), status |-> 200, listed |-> {}]
  ELSE IF ~req.storeOk THEN Thrown(ep, store)
       ELSE [store |-> store, status |-> 200, listed |-> Listed(ep, store)]

ApiInit ==
  /\ GestureInit
  /\ RotIdle
  /\ EngineIdle
  /\ ScenarioIdle
  /\ LifeIdle
  /\ PopIdle
  /\ AppIdle
  /\ ConeIdle
  /\ endpoint \in Endpoints
  /\ blobs = StoredBlobs
  /\ exchange = [method |-> "none"]
  /\ requests = 0

\* one request is handled; storeOk says whether the call to the blob store
\* succeeds
Request(method, body, storeOk) ==
  LET req == [method |-> method, body |-> body, storeOk |-> storeOk]
      out == Handler(endpoint, blobs, req)
  IN  /\ requests < MaxRequests
      /\ requests' = requests + 1
      /\ blobs' = out.store
      /\ exchange' = [method |-> method, body |-> body, storeOk |-> storeOk,
                      status |-> out.status, listed |-> out.listed,
                      before |-> blobs]
      /\ UNCHANGED endpoint
      /\ UNCHANGED <<gestureVars, rotVars, engineVars, scenarioVars, lifeVars, popVars,
                     appVars, coneVars>>

ApiNext == \E method \in Methods, body \in Bodies, storeOk \in BOOLEAN :
              Request(method, body, storeOk)

SpecApi == ApiInit /\ [][ApiNext]_vars

\* a request has been handled
Handled == requests > 0

\* the body of the latest request carries a non-empty url
CarriesUrl == exchange.body.kind = "url" /\ exchange.body.url # ""

\* a blob is deleted only by a DELETE whose body carries a non-empty url, and
\* a request of another method deletes nothing and answers, if it answers 200,
\* the list of blob urls
DeletionGuard ==
  Handled =>
    /\ blobs # exchange.before => (exchange.method = "DELETE" /\ CarriesUrl)
    /\ blobs \subseteq exchange.before
    /\ exchange.method # "DELETE" =>
         /\ blobs = exchange.before
         /\ exchange.status = 200 => exchange.listed = Listed(endpoint, blobs)

\* C30 as stated: the deletion guard, and every DELETE request without a
\* non-empty url answers 400 and deletes nothing
C30_DeleteNeedsUrl ==
  /\ DeletionGuard
  /\ (Handled /\ exchange.method = "DELETE" /\ ~CarriesUrl) =>
        exchange.status = 400 /\ blobs = exchange.before

\* C30, amended: the deletion guard; a DELETE request whose body is a JSON
\* object without url or with an empty url answers 400 and deletes nothing; a
\* DELETE request whose body is not JSON or is the JSON null deletes nothing
\* and is answered 500 by part_001 and by a thrown exception in photos.ts
C30_DeleteGuarded ==
  /\ DeletionGuard
  /\ (Handled /\ exchange.method = "DELETE" /\ Falsy(exchange.body)) =>
        exchange.status = 400 /\ blobs = exchange.before
  /\ (Handled /\ exchange.method = "DELETE" /\ BodyThrows(exchange.body)) =>
        /\ exchange.status = IF endpoint = "part_001" THEN 500 ELSE NoResponse
        /\ blobs = exchange.before

\* a DELETE with a url removed a blob, then a DELETE without a body was
\* answered 500 and removed nothing
C30_Witness ==
  /\ requests = 2
  /\ endpoint = "part_001"
  /\ exchange.method = "DELETE"
  /\ exchange.body.kind = "invalid"
  /\ exchange.status = 500
  /\ blobs = exchange.before
  /\ blobs # StoredBlobs

====
